---- MODULE Spec2Model ----
(***************************************************************************)
(* Model of the style-set evaluation engine of harp.gl                     *)
(* (@here/harp-datasource-protocol/lib/StyleSetEvaluator.ts) together with *)
(* the parts of the expression engine and of the technique descriptor      *)
(* registry it relies on.                                                  *)
(*                                                                         *)
(* JavaScript values are records [t |-> type, v |-> text]; a style tree is *)
(* a sequence of rules in pre-order, each naming its parent (0 = top       *)
(* level); the lazily computed fields the code attaches to a style object  *)
(* (_whenExpr, _staticAttributes, ..., _staticTechnique) live in the       *)
(* function styleParams, indexed by the rule's position in the sequence.   *)
(***************************************************************************)
EXTENDS Integers, Sequences, FiniteSets, TLC

(***************************************************************************)
(* Bounds of the model.                                                    *)
(***************************************************************************)
MaxCalls == 3

(***************************************************************************)
(* JavaScript values (type Value of Expr.ts, plus undefined).              *)
(***************************************************************************)
Undefined == [t |-> "undefined", v |-> ""]
Null == [t |-> "null", v |-> ""]
Num(text) == [t |-> "number", v |-> text]
Str(text) == [t |-> "string", v |-> text]
Bool(b) == [t |-> "boolean", v |-> IF b THEN "true" ELSE "false"]
NaN == Num("NaN")

\* typeof value
typeOf(val) ==
    IF val.t = "null" THEN "object" ELSE val.t

\* the strict equality operator ===
strictEquals(a, b) ==
    /\ a = b
    /\ a # NaN

\* a conversion for which every value holds
truthyAlways(val) == TRUE

\* ToBoolean, as applied by the ! operator
truthy(val) ==
    CASE val.t = "undefined" -> FALSE
      [] val.t = "null" -> FALSE
      [] val.t = "boolean" -> val.v = "true"
      [] val.t = "number" -> val.v \notin {"0", "NaN"}
      [] val.t = "string" -> val.v # ""
      [] OTHER -> TRUE

\* JSON.stringify of a primitive value; a number that is not finite is
\* serialised as null, a string is quoted
JSONstringify(val) ==
    CASE val.t = "null" -> "null"
      [] val.t = "boolean" -> val.v
      [] val.t = "number" ->
            IF val.v \in {"NaN", "Infinity", "-Infinity"} THEN "null" ELSE val.v
      [] val.t = "string" -> "\"" \o val.v \o "\""
      [] OTHER -> "undefined"

RECURSIVE join(_, _)
\* Array.prototype.join on a sequence of strings
join(strs, sep) ==
    IF Len(strs) = 0 THEN ""
    ELSE IF Len(strs) = 1 THEN strs[1]
    ELSE strs[1] \o sep \o join(Tail(strs), sep)

(***************************************************************************)
(* Expressions.  A JSON expression is a literal or an array                *)
(* [operator, ...args]; a compiled expression (Expr) is a literal, a       *)
(* variable reference or an operator call.                                 *)
(***************************************************************************)
JLit(val) == [arr |-> FALSE, head |-> "", args |-> <<>>, lit |-> val]
JCall(op, args) == [arr |-> TRUE, head |-> op, args |-> args, lit |-> Undefined]

LiteralExpr(val) == [op |-> "literal", name |-> "", value |-> val, args |-> <<>>]
VarExpr(name) == [op |-> "get", name |-> name, value |-> Undefined, args |-> <<>>]
CallExpr(op, args) == [op |-> op, name |-> "", value |-> Undefined, args |-> args]
NoExpr == [op |-> "", name |-> "", value |-> Undefined, args |-> <<>>]

\* the operators of the expression language used by the style sets below
CastOperators == {"boolean", "number", "string"}
BinaryOperators == {"==", "!="}
KnownOperators == CastOperators \cup BinaryOperators \cup {"get", "!"}

\* isJsonExpr: a non-empty array whose first element is a string
isJsonExpr(json) ==
    json.arr /\ json.head # ""

RECURSIVE fromJSON(_)
\* Expr.fromJSON: the compiled expression, or a ParseError for an unknown
\* operator or a wrong number of arguments
fromJSON(json) ==
    IF ~json.arr THEN [ok |-> TRUE, expr |-> LiteralExpr(json.lit)]
    ELSE IF json.head \notin KnownOperators THEN [ok |-> FALSE, expr |-> NoExpr]
    ELSE IF json.head = "get"
    THEN IF Len(json.args) = 1 /\ ~json.args[1].arr /\ json.args[1].lit.t = "string"
         THEN [ok |-> TRUE, expr |-> VarExpr(json.args[1].lit.v)]
         ELSE [ok |-> FALSE, expr |-> NoExpr]
    ELSE IF json.head \in BinaryOperators /\ Len(json.args) # 2
    THEN [ok |-> FALSE, expr |-> NoExpr]
    ELSE IF json.head = "!" /\ Len(json.args) # 1
    THEN [ok |-> FALSE, expr |-> NoExpr]
    ELSE LET parsed == [i \in 1..Len(json.args) |-> fromJSON(json.args[i])]
         IN  IF \E i \in 1..Len(json.args) : ~parsed[i].ok
             THEN [ok |-> FALSE, expr |-> NoExpr]
             ELSE [ok |-> TRUE,
                   expr |-> CallExpr(json.head,
                                     [i \in 1..Len(json.args) |-> parsed[i].expr])]

\* Expr.parse: the string form of a condition, given as its tokens:
\* <name>, or <name> <comparison> <string literal>
parse(tokens) ==
    IF Len(tokens) = 1 /\ tokens[1] \notin KnownOperators
    THEN [ok |-> TRUE, expr |-> VarExpr(tokens[1])]
    ELSE IF /\ Len(tokens) = 3
            /\ tokens[2] \in BinaryOperators
            /\ tokens[1] \notin KnownOperators
    THEN [ok |-> TRUE,
          expr |-> CallExpr(tokens[2], <<VarExpr(tokens[1]), LiteralExpr(Str(tokens[3]))>>)]
    ELSE [ok |-> FALSE, expr |-> NoExpr]

RECURSIVE subExprs(_)
\* an expression with all the expressions below it
subExprs(expr) ==
    {expr} \cup UNION {subExprs(expr.args[i]) : i \in 1..Len(expr.args)}

\* Expr.intern: structurally equal expressions are one pooled instance, so
\* an expression is identified by its structure; the pool records it
intern(expr, pool) ==
    pool \cup subExprs(expr)

\* Env.lookup
lookup(env, name) ==
    IF name \in DOMAIN env THEN env[name] ELSE Undefined

EvalOk(val, cache) == [err |-> FALSE, v |-> val, cache |-> cache]
EvalError(cache) == [err |-> TRUE, v |-> Undefined, cache |-> cache]

\* a type test that every value passes
hasAnyType(val, type) == TRUE

\* typeof value === type
hasType(val, type) == typeOf(val) = type

RECURSIVE evaluate(_, _, _)
RECURSIVE conditionalCast(_, _, _, _)

\* FlowOperators.conditionalCast: the first argument of the requested type,
\* the arguments after it are not evaluated; an error when there is none
conditionalCast(type, args, env, cache) ==
    IF type \notin CastOperators THEN EvalError(cache)
    ELSE IF Len(args) = 0 THEN EvalError(cache)
    ELSE LET first == evaluate(args[1], env, cache)
         IN  IF first.err THEN first
             ELSE IF hasType(first.v, type) THEN first
             ELSE conditionalCast(type, Tail(args), env, first.cache)

\* Expr.evaluate with the optional cache of results: a cached result is
\* returned as it is, a computed result is stored
evaluate(expr, env, cache) ==
    IF expr \in DOMAIN cache /\ cache[expr] # Undefined
    THEN EvalOk(cache[expr], cache)
    ELSE LET res ==
               CASE expr.op = "literal" -> EvalOk(expr.value, cache)
                 [] expr.op = "get" -> EvalOk(lookup(env, expr.name), cache)
                 [] expr.op \in CastOperators ->
                        conditionalCast(expr.op, expr.args, env, cache)
                 [] expr.op \in BinaryOperators ->
                        LET l == evaluate(expr.args[1], env, cache)
                            r == evaluate(expr.args[2], env, l.cache)
                        IN  IF l.err THEN l
                            ELSE IF r.err THEN r
                            ELSE EvalOk(Bool(strictEquals(l.v, r.v) = (expr.op = "==")),
                                        r.cache)
                 [] expr.op = "!" ->
                        LET a == evaluate(expr.args[1], env, cache)
                        IN  IF a.err THEN a ELSE EvalOk(Bool(~truthy(a.v)), a.cache)
                 [] OTHER -> EvalError(cache)
         IN  IF res.err THEN res
             ELSE EvalOk(res.v, (expr :> res.v) @@ res.cache)

(***************************************************************************)
(* Technique descriptor registry.                                          *)
(***************************************************************************)
EmptyScopes == [n \in {} |-> ""]

\* a Partial<TechniqueDescriptor>: attrScopes may be missing
Descriptor(scopes) == [hasAttrScopes |-> TRUE, attrScopes |-> scopes]
NoScopesDescriptor == [hasAttrScopes |-> FALSE, attrScopes |-> EmptyScopes]

\* an assignment of the properties collected so far to the source object
assignToSource(objects, target, source) ==
    Append([objects EXCEPT ![source] = objects[source] @@ objects[target]],
           objects[source] @@ objects[target])

\* { ...target, ...source }: a new object with the properties of target,
\* over them those of source; the objects are the attrScopes objects of
\* the call, the new one is the last
spread(objects, target, source) ==
    Append(objects, objects[source] @@ objects[target])

RECURSIVE mergeInto(_, _, _)
\* the loop of mergeTechniqueDescriptor from the i-th descriptor on;
\* m = [objects, result]: the attrScopes objects and the one the result
\* refers to
mergeInto(m, descriptors, i) ==
    IF i > Len(descriptors) THEN m
    ELSE mergeInto(IF descriptors[i].hasAttrScopes
                   THEN [objects |-> spread(m.objects, m.result, i),
                         result |-> Len(m.objects) + 1]
                   ELSE m,
                   descriptors, i + 1)

\* the call of mergeTechniqueDescriptor: the attrScopes objects of the
\* arguments, then the object the result is created with
mergeCall(descriptors) ==
    mergeInto([objects |-> [i \in 1..(Len(descriptors) + 1) |->
                              IF i <= Len(descriptors) THEN descriptors[i].attrScopes
                              ELSE EmptyScopes],
               result |-> Len(descriptors) + 1],
              descriptors, 1)

mergeTechniqueDescriptor(descriptors) ==
    Descriptor(mergeCall(descriptors).objects[mergeCall(descriptors).result])

\* the arguments as they are after the call
mergedArguments(descriptors) ==
    [i \in 1..Len(descriptors) |->
        [descriptors[i] EXCEPT !.attrScopes = mergeCall(descriptors).objects[i]]]

emptyTechniqueDescriptor == mergeTechniqueDescriptor(<<NoScopesDescriptor>>)

baseTechniqueParamsDescriptor ==
    Descriptor([n \in {"renderOrder", "renderOrderOffset", "enabled", "kind",
                       "transient", "fadeFar", "fadeNear"} |->
                   IF n \in {"fadeFar", "fadeNear"} THEN "Renderer" ELSE "Technique"])

pointTechniquePropTypes ==
    mergeTechniqueDescriptor(<<baseTechniqueParamsDescriptor,
        Descriptor([n \in {"texture", "enablePicking", "color", "transparent", "opacity"} |->
                       IF n \in {"color", "transparent"} THEN "Renderer" ELSE "Technique"])>>)

circlesTechniquePropTypes ==
    mergeTechniqueDescriptor(<<baseTechniqueParamsDescriptor, pointTechniquePropTypes>>)

lineTechniqueDescriptor ==
    mergeTechniqueDescriptor(<<baseTechniqueParamsDescriptor,
        Descriptor([n \in {"color", "opacity", "transparent", "lineWidth"} |->
                       IF n = "lineWidth" THEN "Feature" ELSE "Renderer"])>>)

\* the registry, restricted to the techniques the style sets below use
techniqueDescriptors ==
    [name \in {"circles", "line"} |->
        IF name = "circles" THEN circlesTechniquePropTypes ELSE lineTechniqueDescriptor]

\* techniqueAttrType: the scope of an attribute in a descriptor; an
\* attribute the descriptor does not list has no dynamic support
techniqueAttrType(attrName, techniqueDescriptor) ==
    IF attrName \notin DOMAIN techniqueDescriptor.attrScopes THEN "Static"
    ELSE CASE techniqueDescriptor.attrScopes[attrName] = "Feature" -> "Feature"
           [] techniqueDescriptor.attrScopes[attrName] = "Technique" -> "Technique"
           [] OTHER -> "DynamicMaterial"

(***************************************************************************)
(* Style declarations.                                                     *)
(***************************************************************************)
\* the value of an attribute in a declaration: undefined, a constant, a
\* JSON expression or an interpolated-curve definition
NoAttr == [k |-> "undefined", val |-> Undefined, json |-> JLit(Undefined), valid |-> FALSE]
AttrValue(val) == [k |-> "value", val |-> val, json |-> JLit(Undefined), valid |-> FALSE]
AttrJson(json) == [k |-> "json", val |-> Undefined, json |-> json, valid |-> FALSE]
AttrInterp(valid) == [k |-> "interp", val |-> Undefined, json |-> JLit(Undefined), valid |-> valid]

NoTechnique == "undefined"
NoGroup == "undefined"

\* a rule without any field set; parent is the position of the enclosing
\* rule in the pre-order sequence, 0 for a top-level rule
Style0 ==
    [parent |-> 0,
     isReference |-> FALSE,
     owner |-> 0,
     hasWhen |-> FALSE, whenIsArray |-> FALSE, whenJson |-> JLit(Undefined),
     whenTokens |-> <<>>,
     hasStyles |-> FALSE,
     technique |-> NoTechnique,
     final |-> FALSE,
     hasRenderOrder |-> FALSE, renderOrder |-> 0,
     renderOrderBiasGroup |-> NoGroup,
     hasRenderOrderBiasRange |-> FALSE, renderOrderBiasRange |-> <<0, 0>>,
     renderOrderOffset |-> NoAttr,
     labelProperty |-> NoAttr,
     secondaryRenderOrder |-> NoAttr,
     attr |-> <<>>,
     hasStyleSetIndex |-> FALSE, _styleSetIndex |-> 0]

RECURSIVE childrenFrom(_, _, _)
childrenFrom(styles, parent, i) ==
    IF i > Len(styles) THEN <<>>
    ELSE IF styles[i].parent = parent
    THEN <<i>> \o childrenFrom(styles, parent, i + 1)
    ELSE childrenFrom(styles, parent, i + 1)

\* style.styles (the top-level list for parent 0), as positions
children(styles, parent) == childrenFrom(styles, parent, 1)

abs(n) == IF n < 0 THEN -n ELSE n

(***************************************************************************)
(* The constructor: render orders and style-set indices.                   *)
(***************************************************************************)
\* an assignment that gives every leaf the index of the first one
assignStyleSetIndexOnce(c, r) ==
    [c EXCEPT !.styles[r].hasStyleSetIndex = TRUE,
              !.styles[r]._styleSetIndex = 0]

\* line 154: style._styleSetIndex = styleSetIndex++
assignStyleSetIndex(c, r) ==
    [c EXCEPT !.styles[r].hasStyleSetIndex = TRUE,
              !.styles[r]._styleSetIndex = c.styleSetIndex,
              !.styleSetIndex = @ + 1]

\* a default render order that leaves the counter where it is
assignDefaultRenderOrderWithoutCounting(c, r) ==
    IF c.styles[r].technique # NoTechnique /\ ~c.styles[r].hasRenderOrder
    THEN [c EXCEPT !.styles[r].hasRenderOrder = TRUE,
                   !.styles[r].renderOrder = c.techniqueRenderOrder]
    ELSE c

\* a default render order for every leaf with a technique, also when the
\* rule has a render order already
assignDefaultRenderOrderAlways(c, r) ==
    IF c.styles[r].technique # NoTechnique
    THEN [c EXCEPT !.styles[r].hasRenderOrder = TRUE,
                   !.styles[r].renderOrder = c.techniqueRenderOrder,
                   !.techniqueRenderOrder = @ + 1]
    ELSE c

\* lines 155-157: a leaf with a technique and without render order gets
\* techniqueRenderOrder++
assignDefaultRenderOrder(c, r) ==
    IF c.styles[r].technique # NoTechnique /\ ~c.styles[r].hasRenderOrder
    THEN [c EXCEPT !.styles[r].hasRenderOrder = TRUE,
                   !.styles[r].renderOrder = c.techniqueRenderOrder,
                   !.techniqueRenderOrder = @ + 1]
    ELSE c

\* a reservation that advances the counter by one, whatever the range
reserveRenderOrdersOfOne(c, r) ==
    LET group == c.styles[r].renderOrderBiasGroup
        minRange == c.styles[r].renderOrderBiasRange[1]
        reserved == IF minRange < 0 THEN c.techniqueRenderOrder + abs(minRange)
                    ELSE c.techniqueRenderOrder
    IN  [c EXCEPT
           !.styles[r].hasRenderOrder = TRUE,
           !.styles[r].renderOrder = reserved,
           !.techniqueRenderOrder = @ + 1,
           !.groups = IF group # "" THEN (group :> reserved) @@ @ ELSE @]

\* lines 124-136: the rule gets the counter (moved up by |min| for a
\* negative min), the counter moves past the range, the group is registered
reserveRenderOrders(c, r) ==
    LET group == c.styles[r].renderOrderBiasGroup
        minRange == c.styles[r].renderOrderBiasRange[1]
        maxRange == c.styles[r].renderOrderBiasRange[2]
        reserved == IF minRange < 0 THEN c.techniqueRenderOrder + abs(minRange)
                    ELSE c.techniqueRenderOrder
    IN  [c EXCEPT
           !.styles[r].hasRenderOrder = TRUE,
           !.styles[r].renderOrder = reserved,
           !.techniqueRenderOrder = @ + abs(minRange) + maxRange + 1,
           !.groups = IF group # "" THEN (group :> reserved) @@ @ ELSE @]

RECURSIVE computeDefaultRenderOrder(_, _)
RECURSIVE computeDefaultRenderOrders(_, _)

\* c = [styles, techniqueRenderOrder, styleSetIndex, groups]
computeDefaultRenderOrder(c, r) ==
    LET style == c.styles[r]
        group == style.renderOrderBiasGroup
        hasGroupOrder == group # NoGroup /\ group # "" /\ group \in DOMAIN c.groups
        c1 == IF group = NoGroup THEN c
              ELSE IF style.hasRenderOrderBiasRange /\ ~hasGroupOrder
              THEN reserveRenderOrders(c, r)
              ELSE IF hasGroupOrder /\ c.groups[group] # 0
              THEN [c EXCEPT
                      !.styles[r].hasRenderOrder = TRUE,
                      !.styles[r].renderOrder = c.groups[group]]
              ELSE c
        style1 == c1.styles[r]
    IN  IF style1.hasStyles
        THEN computeDefaultRenderOrders(c1, children(c1.styles, r))
        ELSE assignDefaultRenderOrder(assignStyleSetIndex(c1, r), r)

computeDefaultRenderOrders(c, rules) ==
    IF Len(rules) = 0 THEN c
    ELSE computeDefaultRenderOrders(computeDefaultRenderOrder(c, rules[1]), Tail(rules))

\* isReference: a declaration that names another style
isReference(style) == style.isReference

\* the sequence without its entry r (a rule without rules below it); the
\* positions of the parents follow
removeAt(styles, r) ==
    [i \in 1..(Len(styles) - 1) |->
        [styles[IF i < r THEN i ELSE i + 1] EXCEPT
            !.parent = IF @ > r THEN @ - 1 ELSE @]]

RECURSIVE filterUndefined(_, _)
\* .filter(subStyle => subStyle !== undefined) on every nested list: the
\* nested references from position i downwards are left out
filterUndefined(styles, i) ==
    IF i = 0 THEN styles
    ELSE filterUndefined(IF isReference(styles[i]) /\ styles[i].parent # 0
                         THEN removeAt(styles, i)
                         ELSE styles,
                         i - 1)

\* a clone that hands the declared objects themselves to the evaluator
cloneStyleShared(styles) == filterUndefined(styles, Len(styles))

\* styleSet.map(style => cloneStyle(style)): every rule is copied into a
\* new object, which the evaluator owns (owner 0 is the caller, whose
\* objects the declarations are); a nested reference is dropped from the
\* list of its parent; for a top-level reference cloneStyle returns
\* undefined, which stays in the top-level list (the entry that is still a
\* reference stands for it)
cloneStyle(styles) ==
    [i \in 1..Len(filterUndefined(styles, Len(styles))) |->
        [filterUndefined(styles, Len(styles))[i] EXCEPT !.owner = 1]]

\* the constructor reads style.renderOrderBiasGroup of every entry of the
\* top-level list: a TypeError for an entry that is undefined
constructorThrows(decl) ==
    \E i \in 1..Len(cloneStyle(decl)) :
        cloneStyle(decl)[i].parent = 0 /\ isReference(cloneStyle(decl)[i])

\* the loop of the constructor over the cloned style set
computeStyleSet(decl) ==
    computeDefaultRenderOrders(
        [styles |-> cloneStyle(decl), techniqueRenderOrder |-> 0, styleSetIndex |-> 0,
         groups |-> [g \in {} |-> 0]],
        children(cloneStyle(decl), 0))

\* new StyleSetEvaluator(styleSet).styleSet
constructStyleSet(decl) == computeStyleSet(decl).styles

(***************************************************************************)
(* State.                                                                  *)
(***************************************************************************)
VARIABLES
    declarations,     \* the style set handed to the constructor
    constructorThrown,\* "none", or the error the constructor ended with
    styleSet,         \* StyleSetEvaluator.styleSet, the evaluator's own tree
    styleParams,      \* the StyleInternalParams of every rule of styleSet
    m_techniques,     \* StyleSetEvaluator.m_techniques
    m_exprPool,       \* StyleSetEvaluator.m_exprPool
    m_cachedResults,  \* StyleSetEvaluator.m_cachedResults
    calls,            \* number of getMatchingTechniques calls made
    lastEnv,          \* the environment of the last call (0 before the first)
    result,           \* what the last call returned: references into m_techniques
    thrown,           \* "none", or the error the last call ended with
    decodedTechniques,\* what the last read of decodedTechniques returned
    declarationParams,\* the StyleInternalParams found on the caller's objects
    other,            \* a second evaluator constructed from the same style set
    trace,            \* what the last call did, rule by rule
    history,          \* what each call so far did
    arguments,        \* the arguments of a call of a function, as they are now
    returned,         \* what the call returned, with the arguments it was given
    controls,         \* the fields of a MapControls
    window,           \* the mouseup/mousemove listener pairs registered on window
    dispatched,       \* how many BeginInteraction and EndInteraction events were dispatched
    now,              \* performance.now()
    pointer,          \* the mouse button held, the fingers down, the tap under way
    taps,             \* the taps that ended, with what touchEnd did for each
    m_featureCollection,  \* the features of a FeaturesDataSource
    operation,        \* the last call on the FeaturesDataSource
    m_missingPoiName, \* PoiManager: the keys of the missing POIs reported so far
    warnings,         \* the warnings logged for missing POIs
    notifications     \* the calls of notifyMissingPoi so far

vars == <<declarations, constructorThrown, styleSet, styleParams, m_techniques, m_exprPool, m_cachedResults,
          calls, lastEnv, result, thrown, decodedTechniques, declarationParams,
          other, trace, history, arguments, returned,
          controls, window, dispatched, now, pointer, taps,
          m_featureCollection, operation,
          m_missingPoiName, warnings, notifications>>

\* the state apart from the evaluator
functionVars == <<arguments, returned>>
controlVars == <<controls, window, dispatched, now, pointer, taps>>
dataSourceVars == <<m_featureCollection, operation>>
poiVars == <<m_missingPoiName, warnings, notifications>>
auxVars == <<functionVars, controlVars, dataSourceVars, poiVars>>

\* State: the interaction a MapControls is in
State == {"NONE", "PAN", "ROTATE", "ORBIT", "TOUCH"}

\* a MapControls after construction, on a window without listeners, no
\* button held and no finger down
NewMapControls ==
    /\ controls = [enabled |-> TRUE,
                   tiltEnabled |-> TRUE,
                   m_state |-> "NONE",
                   m_tapStartTime |-> 0,
                   m_lastSingleTapTime |-> 0,
                   m_fingerMoved |-> FALSE,
                   m_isDoubleTap |-> FALSE,
                   m_cleanupMouseEventListeners |-> 0,
                   touches |-> 0]
    /\ window = [listeners |-> <<>>, bound |-> 0]
    /\ dispatched = [BeginInteraction |-> 0, EndInteraction |-> 0]
    /\ now = 0
    /\ pointer = [pressed |-> FALSE, fingers |-> 0, events |-> 0,
                  started |-> 0, moved |-> FALSE, handled |-> FALSE,
                  single |-> FALSE, onMap |-> FALSE]
    /\ taps = <<>>

\* a FeaturesDataSource after construction
NewFeaturesDataSource ==
    /\ m_featureCollection = <<>>
    /\ operation = [name |-> "new", features |-> <<>>, before |-> <<>>]

\* the PoiManager before any missing POI
NewPoiManager ==
    /\ m_missingPoiName = {}
    /\ warnings = <<>>
    /\ notifications = <<>>

\* no function was called
NoCall ==
    /\ arguments = <<>>
    /\ returned = [done |-> FALSE]

\* an entry of _staticAttributes, _dynamicTechniqueAttributes, ...: the
\* attribute name with a value, a compiled expression or an interpolated
\* property; also the value of a property of a technique
Attr(name, k, val, expr) == [name |-> name, k |-> k, val |-> val, expr |-> expr]
ValueOf(val) == [k |-> "value", val |-> val, expr |-> NoExpr]
ExprOf(expr) == [k |-> "expr", val |-> Undefined, expr |-> expr]
Interpolated == [k |-> "interp", val |-> Undefined, expr |-> NoExpr]

Params0 ==
    [hasWhenExpr |-> FALSE, _whenExpr |-> NoExpr,
     partitioned |-> FALSE,
     _staticAttributes |-> <<>>,
     _dynamicTechniqueAttributes |-> <<>>,
     _dynamicFeatureAttributes |-> <<>>,
     _dynamicForwaredAttributes |-> <<>>,
     hasDynamicTechniques |-> FALSE, _dynamicTechniques |-> [k \in {} |-> 0],
     hasStaticTechnique |-> FALSE, _staticTechnique |-> 0]

Trace0 ==
    [visited |-> <<>>,        \* the rules processStyle was called for, in order
     whenFailed |-> {},       \* the rules whose condition failed to parse or evaluate
     matched |-> {},          \* the rules whose condition held (or that have none)
     pushed |-> <<>>,         \* per push to the result: rule, technique
     tuples |-> <<>>,         \* per push of a dynamic technique: rule, values, technique
     created |-> {},          \* the rules that created a technique in this call
     finished |-> {},         \* the rules for which processStyle returned true
     stackSizes |-> <<>>,     \* styleStack.length at the start of each top-level iteration
     thrownAt |-> 0]          \* the rule whose processing raised the error

(***************************************************************************)
(* Technique resolution.                                                   *)
(***************************************************************************)
\* p = [static, feature, technique, forwarded, pool, thrown]
processAttribute(p, attrName, attrValue, techniqueDescriptor) ==
    IF attrValue.k = "undefined" THEN p
    ELSE LET attrType == techniqueAttrType(attrName, techniqueDescriptor)
         IN  IF attrValue.k = "json" /\ isJsonExpr(attrValue.json)
             THEN LET parsed == fromJSON(attrValue.json)
                      entry == Attr(attrName, "expr", Undefined, parsed.expr)
                  IN  IF ~parsed.ok THEN [p EXCEPT !.thrown = TRUE]
                      ELSE LET p1 == [p EXCEPT !.pool = intern(parsed.expr, @)]
                           IN  CASE attrType = "Feature" ->
                                        [p1 EXCEPT !.feature = Append(@, entry)]
                                 [] attrType = "Technique" ->
                                        [p1 EXCEPT !.technique = Append(@, entry)]
                                 [] OTHER -> p1
             ELSE IF attrValue.k = "interp"
             THEN LET entry == Attr(attrName, "interp", Undefined, NoExpr)
                  IN  IF ~attrValue.valid THEN p
                      ELSE CASE attrType = "Feature" ->
                                    [p EXCEPT !.feature = Append(@, entry)]
                             [] attrType \in {"DynamicMaterial", "Technique"} ->
                                    [p EXCEPT !.forwarded = Append(@, entry)]
                             [] OTHER -> p
             ELSE [p EXCEPT !.static =
                      Append(@, Attr(attrName, "value",
                                     IF attrValue.k = "json" THEN attrValue.json.lit
                                     ELSE attrValue.val,
                                     NoExpr))]

\* the (name, value) pairs processAttributes hands to processAttribute
processAttributes(style2) ==
    <<  <<"renderOrder",
          IF style2.hasRenderOrder THEN AttrValue(Num(ToString(style2.renderOrder)))
          ELSE NoAttr>>,
        <<"renderOrderOffset", style2.renderOrderOffset>>,
        <<"label", style2.labelProperty>>,
        <<"secondaryRenderOrder", style2.secondaryRenderOrder>> >>
    \o style2.attr

RECURSIVE processAttributeList(_, _, _)
\* processAttribute for every pair, until one throws
processAttributeList(p, pairs, techniqueDescriptor) ==
    IF Len(pairs) = 0 \/ p.thrown THEN p
    ELSE processAttributeList(
             processAttribute(p, pairs[1][1], pairs[1][2], techniqueDescriptor),
             Tail(pairs), techniqueDescriptor)

RECURSIVE attributesOf(_)
\* the pairs of the styles on the stack, then those of the style itself
attributesOf(rules) ==
    IF Len(rules) = 0 THEN <<>>
    ELSE processAttributes(styleSet[rules[1]]) \o attributesOf(Tail(rules))

\* st = [params, techniques, pool, cache, result, styleStack, thrown, trace]
checkStyleDynamicAttributes(st, r) ==
    LET style == styleSet[r]
    IN  IF st.params[r].partitioned \/ style.technique = "none" THEN st
        ELSE LET techniqueDescriptor ==
                    IF style.technique \in DOMAIN techniqueDescriptors
                    THEN techniqueDescriptors[style.technique]
                    ELSE emptyTechniqueDescriptor
                 partitioned(p) ==
                    [st EXCEPT
                       !.params[r].partitioned = TRUE,
                       !.params[r]._staticAttributes = p.static,
                       !.params[r]._dynamicFeatureAttributes = p.feature,
                       !.params[r]._dynamicTechniqueAttributes = p.technique,
                       !.params[r]._dynamicForwaredAttributes = p.forwarded,
                       !.params[r].hasDynamicTechniques = ~p.thrown /\ Len(p.technique) > 0,
                       !.pool = p.pool,
                       !.thrown = IF p.thrown THEN "ParseError" ELSE @,
                       !.trace.thrownAt = IF p.thrown THEN r ELSE @]
             IN  partitioned(processAttributeList(
                     [static |-> <<>>, feature |-> <<>>, technique |-> <<>>,
                      forwarded |-> <<>>, pool |-> st.pool, thrown |-> FALSE],
                     attributesOf(Append(st.styleStack, r)),
                     techniqueDescriptor))

RECURSIVE evaluateAttributes(_, _, _)
\* the map of evaluateTechniqueProperties: [values, cache, err]
evaluateAttributes(attrs, env, cache) ==
    IF Len(attrs) = 0 THEN [values |-> <<>>, cache |-> cache, err |-> FALSE]
    ELSE LET mapped(evaluatedValue) ==
                 IF evaluatedValue.err
                 THEN [values |-> <<>>, cache |-> evaluatedValue.cache, err |-> TRUE]
                 ELSE [evaluateAttributes(Tail(attrs), env, evaluatedValue.cache) EXCEPT
                         !.values = <<Attr(attrs[1].name, "value", evaluatedValue.v, NoExpr)>>
                                    \o @]
         IN  mapped(evaluate(attrs[1].expr, env, cache))

\* an evaluation that takes the FeatureScope expressions into the tuple
evaluateTechniquePropertiesAndFeatures(st, r, env) ==
    IF ~st.params[r].partitioned
    THEN [values |-> <<>>, cache |-> st.cache, err |-> FALSE]
    ELSE evaluateAttributes(
             st.params[r]._dynamicTechniqueAttributes
                 \o SelectSeq(st.params[r]._dynamicFeatureAttributes,
                              LAMBDA a : a.k = "expr"),
             env, st.cache)

\* an evaluation that swallows the error of an attribute expression
evaluateTechniquePropertiesIgnoringErrors(st, r, env) ==
    IF ~st.params[r].partitioned
    THEN [values |-> <<>>, cache |-> st.cache, err |-> FALSE]
    ELSE [evaluateAttributes(st.params[r]._dynamicTechniqueAttributes, env, st.cache)
             EXCEPT !.err = FALSE]

evaluateTechniqueProperties(st, r, env) ==
    IF ~st.params[r].partitioned
    THEN [values |-> <<>>, cache |-> st.cache, err |-> FALSE]
    ELSE evaluateAttributes(st.params[r]._dynamicTechniqueAttributes, env, st.cache)

RECURSIVE assignAll(_, _, _)
\* technique[attrName] = attrValue for every entry, in order; skipExpr
\* leaves out the entries that hold an expression
assignAll(technique, entries, skipExpr) ==
    IF Len(entries) = 0 THEN technique
    ELSE LET e == entries[1]
         IN  assignAll(IF skipExpr /\ e.k = "expr" THEN technique
                       ELSE (e.name :> [k |-> e.k, val |-> e.val, expr |-> e.expr])
                            @@ technique,
                       Tail(entries), skipExpr)

\* a technique object numbered from one
newTechniqueFromOne(style, params, dynamicAttrs, index) ==
    LET named == ("name" :> ValueOf(Str(style.technique)))
        withStatic == assignAll(named, params._staticAttributes, FALSE)
        withDynamic == assignAll(withStatic, dynamicAttrs, FALSE)
        withFeature == assignAll(withDynamic, params._dynamicFeatureAttributes, FALSE)
        withForwarded == assignAll(withFeature, params._dynamicForwaredAttributes, TRUE)
    IN  ("_index" :> ValueOf(Num(ToString(index + 1))))
        @@ ("_styleSetIndex" :> ValueOf(Num(ToString(style._styleSetIndex))))
        @@ withForwarded

\* a technique object without the forwarded attributes
newTechniqueWithoutForwarded(style, params, dynamicAttrs, index) ==
    LET named == ("name" :> ValueOf(Str(style.technique)))
        withStatic == assignAll(named, params._staticAttributes, FALSE)
        withDynamic == assignAll(withStatic, dynamicAttrs, FALSE)
        withFeature == assignAll(withDynamic, params._dynamicFeatureAttributes, FALSE)
    IN  ("_index" :> ValueOf(Num(ToString(index))))
        @@ ("_styleSetIndex" :> ValueOf(Num(ToString(style._styleSetIndex))))
        @@ withFeature

\* the technique object createTechnique builds: its properties by name
newTechnique(style, params, dynamicAttrs, index) ==
    LET named == ("name" :> ValueOf(Str(style.technique)))
        withStatic == assignAll(named, params._staticAttributes, FALSE)
        withDynamic == assignAll(withStatic, dynamicAttrs, FALSE)
        withFeature == assignAll(withDynamic, params._dynamicFeatureAttributes, FALSE)
        withForwarded == assignAll(withFeature, params._dynamicForwaredAttributes, TRUE)
    IN  ("_index" :> ValueOf(Num(ToString(index))))
        @@ ("_styleSetIndex" :> ValueOf(Num(ToString(style._styleSetIndex))))
        @@ withForwarded

\* a createTechnique that stores the new technique over the last one
createTechniqueInPlace(st, r, dynamicAttrs) ==
    [st EXCEPT
       !.techniques =
           IF Len(st.techniques) = 0
           THEN <<newTechnique(styleSet[r], st.params[r], dynamicAttrs, 0)>>
           ELSE [st.techniques EXCEPT
                   ![Len(st.techniques)] =
                       newTechnique(styleSet[r], st.params[r], dynamicAttrs,
                                    Len(st.techniques) - 1)],
       !.trace.created = @ \cup {r}]

\* createTechnique: the new technique is pushed to m_techniques
createTechnique(st, r, dynamicAttrs) ==
    [st EXCEPT
       !.techniques = Append(@, newTechnique(styleSet[r], st.params[r], dynamicAttrs,
                                             Len(st.techniques))),
       !.trace.created = @ \cup {r}]

\* a decoded technique that keeps every attribute
makeDecodedTechniqueWithExpr(technique) == technique

\* makeDecodedTechnique: the attributes whose value is not an Expr
makeDecodedTechnique(technique) ==
    [attrName \in {n \in DOMAIN technique : technique[n].k # "expr"} |->
        technique[attrName]]

\* the reference to the technique createTechnique returned
lastTechnique(st) == Len(st.techniques)

NUL == "\\0"

makeCacheKey(elements) == join(elements, ":")

\* the key of a tuple of evaluated attributes in _dynamicTechniques
dynamicAttrKey(dynamicAttributes) ==
    join([i \in 1..Len(dynamicAttributes) |->
             IF dynamicAttributes[i].val = Undefined THEN "U"
             ELSE JSONstringify(dynamicAttributes[i].val)],
         NUL)

\* a push that puts the technique in front of the result
pushFront(techniques, technique) == <<technique>> \o techniques

\* result.push(technique)
push(techniques, technique) == Append(techniques, technique)

\* style._dynamicTechniques.set(key, technique)
setDynamicTechnique(params, key, technique) ==
    [params EXCEPT !._dynamicTechniques = (key :> technique) @@ @]

\* a rule that does not keep its static technique
setStaticTechniqueForgotten(params, technique) == params

\* style._staticTechnique = technique
setStaticTechnique(params, technique) ==
    [params EXCEPT !.hasStaticTechnique = TRUE, !._staticTechnique = technique]

\* processStyle, lines 264-295: the technique of a matched leaf rule, from
\* the rule's cache or newly created, is pushed to the result
resolveTechnique(st, env, r) ==
    LET style == styleSet[r]
        \* result.push(technique)
        pushed(s, technique) ==
            [s EXCEPT !.result = push(@, technique),
                      !.trace.pushed = Append(@, [rule |-> r, technique |-> technique])]
        traced(s, values) ==
            [s EXCEPT !.trace.tuples =
                Append(@, [rule |-> r,
                           values |-> [i \in 1..Len(values) |-> values[i].val],
                           technique |-> s.result[Len(s.result)]])]
        \* lines 268-283: the technique of the evaluated tuple
        dynamicTechnique(checked, dynamicAttributes, key) ==
            LET keep(created) ==
                    [created EXCEPT
                       !.params[r] = setDynamicTechnique(@, key, lastTechnique(created))]
            IN  IF dynamicAttributes.err
                THEN [checked EXCEPT !.cache = dynamicAttributes.cache,
                                     !.thrown = "EvaluationError",
                                     !.trace.thrownAt = r]
                ELSE IF key \in DOMAIN checked.params[r]._dynamicTechniques
                THEN traced(pushed([checked EXCEPT !.cache = dynamicAttributes.cache],
                                   checked.params[r]._dynamicTechniques[key]),
                            dynamicAttributes.values)
                ELSE LET st2 == keep(createTechnique(
                                    [checked EXCEPT !.cache = dynamicAttributes.cache],
                                    r, dynamicAttributes.values))
                     IN  traced(pushed(st2, lastTechnique(st2)), dynamicAttributes.values)
        keyed(checked, dynamicAttributes) ==
            dynamicTechnique(checked, dynamicAttributes,
                             makeCacheKey(<<ToString(style._styleSetIndex),
                                            dynamicAttrKey(dynamicAttributes.values)>>))
        \* lines 284-293: the technique of the rule
        staticTechnique(checked) ==
            LET keep(created) ==
                    [created EXCEPT
                       !.params[r] = setStaticTechnique(@, lastTechnique(created))]
            IN  IF checked.params[r].hasStaticTechnique
                THEN pushed(checked, checked.params[r]._staticTechnique)
                ELSE LET st2 == keep(createTechnique(checked, r, <<>>))
                     IN  pushed(st2, lastTechnique(st2))
        resolved(checked) ==
            IF checked.thrown # "none" THEN checked
            ELSE IF checked.params[r].hasDynamicTechniques
            THEN keyed(checked, evaluateTechniqueProperties(checked, r, env))
            ELSE staticTechnique(checked)
    IN  resolved(checkStyleDynamicAttributes(st, r))

(***************************************************************************)
(* The matching algorithm.                                                 *)
(***************************************************************************)
RECURSIVE processStyle(_, _, _)
RECURSIVE processStyles(_, _, _)

\* a test that takes every technique name for a technique
foundTechniqueAlways(style) == TRUE

\* line 264: style.technique !== "none"
foundTechnique(style) == style.technique # "none"

\* a return value that needs a technique other than "none"
stopProcessingWithTechnique(style) == style.final /\ style.technique # "none"

\* line 297: return style.final === true
stopProcessing(style) == style.final

\* a pop that leaves the style on the stack
popNothing(styleStack) == styleStack

\* styleStack.pop()
pop(styleStack) == SubSeq(styleStack, 1, Len(styleStack) - 1)

\* processStyle returns value for rule r: the rules it returned true for
\* are recorded
return(one, r) ==
    IF one.finished /\ one.st.thrown = "none"
    THEN [one EXCEPT !.st.trace.finished = @ \cup {r}]
    ELSE one

\* a catch clause that throws the error further
rethrowWhenError(st, r) ==
    [st |-> [st EXCEPT !.trace.whenFailed = @ \cup {r},
                       !.thrown = "EvaluationError",
                       !.trace.thrownAt = r],
     finished |-> FALSE]

\* the catch clause of processStyle: the error is logged, the style does
\* not match
catchWhenError(st, r) ==
    [st |-> [st EXCEPT !.trace.whenFailed = @ \cup {r}], finished |-> FALSE]

\* the loop over style.styles: stops when a style reports that processing
\* is finished, or throws
processStyles(st, env, rules) ==
    IF Len(rules) = 0 THEN [st |-> st, finished |-> FALSE]
    ELSE LET continue(one) ==
                 IF one.st.thrown # "none" \/ one.finished THEN one
                 ELSE processStyles(one.st, env, Tail(rules))
         IN  continue(processStyle(st, env, rules[1]))

\* processStyle: [st, finished]
processStyle(st, env, r) ==
    LET style == styleSet[r]
        st0 == [st EXCEPT !.trace.visited = Append(@, r)]
        leave(s) == [st |-> s, finished |-> FALSE]
        \* lines 248-297: the condition held, or there is none
        matched(s) ==
            LET st3 == [s EXCEPT !.trace.matched = @ \cup {r}]
                popped(looped) ==
                    IF looped.st.thrown # "none" THEN looped
                    ELSE [looped EXCEPT !.st.styleStack = pop(@)]
                pushed(resolved) ==
                    [st |-> resolved,
                     finished |-> resolved.thrown = "none" /\ stopProcessing(style)]
            IN  IF style.hasStyles
                THEN popped(processStyles([st3 EXCEPT !.styleStack = Append(@, r)],
                                          env, children(styleSet, r)))
                ELSE IF style.technique = NoTechnique THEN leave(st3)
                ELSE IF foundTechnique(style)
                THEN pushed(resolveTechnique(st3, env, r))
                ELSE [st |-> st3, finished |-> stopProcessing(style)]
        \* lines 223-246: the condition is compiled once, then evaluated
        tested(s, value) ==
            IF value.err THEN catchWhenError([s EXCEPT !.cache = value.cache], r)
            ELSE IF ~truthy(value.v) THEN leave([s EXCEPT !.cache = value.cache])
            ELSE matched([s EXCEPT !.cache = value.cache])
        compiled(when) ==
            IF ~when.ok THEN catchWhenError(st0, r)
            ELSE LET st1 == [st0 EXCEPT !.params[r].hasWhenExpr = TRUE,
                                        !.params[r]._whenExpr = when.expr,
                                        !.pool = intern(when.expr, @)]
                 IN  tested(st1, evaluate(when.expr, env, st1.cache))
    IN  return(IF ~style.hasWhen THEN matched(st0)
               ELSE compiled(IF st0.params[r].hasWhenExpr
                             THEN [ok |-> TRUE, expr |-> st0.params[r]._whenExpr]
                             ELSE IF style.whenIsArray THEN fromJSON(style.whenJson)
                             ELSE parse(style.whenTokens)),
               r)

RECURSIVE topLevelLoop(_, _, _)
\* the loop of getMatchingTechniques over this.styleSet
topLevelLoop(st, env, rules) ==
    IF Len(rules) = 0 THEN st
    ELSE IF Len(st.styleStack) # 0
    THEN [st EXCEPT !.thrown = "Internal error: style stack cleanup failed",
                    !.trace.stackSizes = Append(@, Len(st.styleStack))]
    ELSE LET continue(one) ==
                 IF one.st.thrown # "none" \/ one.finished THEN one.st
                 ELSE topLevelLoop(one.st, env, Tail(rules))
         IN  continue(processStyle(
                 [st EXCEPT !.trace.stackSizes = Append(@, Len(st.styleStack))],
                 env, rules[1]))

\* a clear that keeps the entries
clearNothing(cachedResults) == cachedResults

\* line 177: this.m_cachedResults.clear()
clear(cachedResults) == <<>>

\* getMatchingTechniques: the state of the evaluator and of the call when
\* the call returns or throws
matchingTechniques(params, techniques, pool, cachedResults, env) ==
    topLevelLoop([params |-> params,
                  techniques |-> techniques,
                  pool |-> pool,
                  cache |-> clear(cachedResults),
                  result |-> <<>>,
                  styleStack |-> <<>>,
                  thrown |-> "none",
                  trace |-> Trace0],
                 env, children(styleSet, 0))

getMatchingTechniques(env) ==
    matchingTechniques(styleParams, m_techniques, m_exprPool, m_cachedResults, env)

(***************************************************************************)
(* Inputs: feature environments and style sets.                            *)
(***************************************************************************)
MapEnv(kind, t, w) == [n \in {"kind", "t", "w"} |->
                          CASE n = "kind" -> Str(kind) [] n = "t" -> t [] OTHER -> w]

\* the environments of the features; the seventh has no attribute t
Envs ==
    << MapEnv("point", Null, Num("1")),
       MapEnv("point", NaN, Num("1")),
       MapEnv("point", Num("1"), Num("1")),
       MapEnv("point", Num("1"), Num("2")),
       MapEnv("line", Num("1"), Num("1")),
       MapEnv("line", Null, Num("2")),
       [n \in {"kind", "w"} |-> IF n = "kind" THEN Str("line") ELSE Num("1")],
       MapEnv("line", Str("U"), Num("1")) >>

Get(name) == JCall("get", <<JLit(Str(name))>>)
WhenString(style, tokens) ==
    [style EXCEPT !.hasWhen = TRUE, !.whenIsArray = FALSE, !.whenTokens = tokens]
WhenJson(style, json) ==
    [style EXCEPT !.hasWhen = TRUE, !.whenIsArray = TRUE, !.whenJson = json]
Leaf(parent, technique, attr) ==
    [Style0 EXCEPT !.parent = parent, !.technique = technique, !.attr = attr]
Group(parent) == [Style0 EXCEPT !.parent = parent, !.hasStyles = TRUE]
Final(style) == [style EXCEPT !.final = TRUE]
RenderOrder(style, n) == [style EXCEPT !.hasRenderOrder = TRUE, !.renderOrder = n]

\* points drawn twice, in declaration order although the render orders
\* decrease; lines with a final rule inside a nested rule
PointsAndLines ==
    << RenderOrder(WhenString(Leaf(0, "circles",
           << <<"color", AttrValue(Str("#ca6"))>>, <<"size", AttrValue(Num("6"))>> >>),
           <<"kind", "==", "point">>), 10001),
       RenderOrder(WhenString(Leaf(0, "circles",
           << <<"color", AttrValue(Str("#a83"))>>, <<"size", AttrValue(Num("8"))>> >>),
           <<"kind", "==", "point">>), 10000),
       WhenJson(Group(0), JCall("==", <<Get("kind"), JLit(Str("line"))>>)),
       Final(WhenJson(Leaf(3, "line", << <<"lineWidth", AttrJson(Get("w"))>> >>),
                      JCall("==", <<Get("w"), JLit(Num("1"))>>))),
       Leaf(3, "line", << <<"lineWidth", AttrInterp(TRUE)>> >>),
       Leaf(0, "line", << <<"color", AttrValue(Str("#333"))>> >>) >>

\* techniques that depend on evaluated attributes
Dynamic ==
    << WhenString(Leaf(0, "circles",
           << <<"opacity", AttrJson(Get("t"))>>, <<"color", AttrJson(Get("w"))>>,
              <<"size", AttrValue(Num("6"))>> >>),
           <<"kind", "==", "point">>),
       [Group(0) EXCEPT !.attr = << <<"enabled", AttrJson(Get("t"))>> >>],
       Leaf(2, "line",
           << <<"lineWidth", AttrJson(Get("w"))>>,
              <<"transient", AttrJson(JCall("==", <<Get("kind"), JLit(Str("line"))>>))>> >>) >>

\* conditions and attributes that fail to parse or to evaluate
Failing ==
    << WhenString(Leaf(0, "circles", <<>>), <<"kind", "==">>),
       WhenJson(Group(0), JCall("string", <<Get("t")>>)),
       Leaf(2, "line", <<>>),
       WhenJson(Leaf(0, "line", <<>>), JCall("in", <<Get("kind")>>)),
       WhenString(Leaf(0, "circles", << <<"opacity", AttrJson(JCall("number", <<Get("t")>>))>> >>),
                  <<"kind", "==", "point">>),
       WhenJson(Leaf(0, "line", << <<"lineWidth", AttrJson(JCall("get", <<>>))>> >>),
                JCall("==", <<Get("w"), JLit(Num("2"))>>)),
       Leaf(0, "line", << <<"color", AttrValue(Str("#333"))>> >>) >>

\* final on a rule with nested styles, on a leaf without technique and on
\* a leaf with the technique "none"
Finals ==
    << Final(WhenString(Group(0), <<"kind", "==", "point">>)),
       Leaf(1, "circles", <<>>),
       Final(WhenJson(Leaf(0, NoTechnique, <<>>), JCall("==", <<Get("w"), JLit(Num("2"))>>))),
       Final(WhenJson(Leaf(0, "none", <<>>), JCall("number", <<Get("t")>>))),
       Leaf(0, "line", <<>>) >>

\* a rule whose attributes are a TechniqueScope expression followed by a
\* malformed expression
Partial ==
    << WhenString(Leaf(0, "circles",
           << <<"opacity", AttrJson(Get("t"))>>,
              <<"texture", AttrJson(JCall("get", <<>>))>> >>),
           <<"kind", "==", "point">>),
       Leaf(0, "line", << <<"lineWidth", AttrJson(Get("w"))>> >>) >>

\* interpolated curves for attributes of every scope of the line
\* technique (lineWidth: FeatureScope, enabled: TechniqueScope, color:
\* renderer scope, size: not in the descriptor), and a nested rule whose
\* TechniqueScope expression fails unless t is a number
Curves ==
    << WhenString(Leaf(0, "line",
           << <<"lineWidth", AttrInterp(TRUE)>>, <<"enabled", AttrInterp(TRUE)>>,
              <<"color", AttrInterp(TRUE)>>, <<"size", AttrInterp(TRUE)>> >>),
           <<"kind", "==", "line">>),
       Group(0),
       Leaf(2, "line", << <<"enabled", AttrJson(JCall("number", <<Get("t")>>))>> >>),
       Leaf(0, "circles", << <<"opacity", AttrInterp(TRUE)>> >>) >>

\* a rule that declares the attributes of its ancestor again, as constants
Overrides ==
    << [Group(0) EXCEPT !.attr =
           << <<"enabled", AttrJson(JCall("==", <<Get("kind"), JLit(Str("line"))>>))>>,
              <<"lineWidth", AttrJson(Get("w"))>>,
              <<"color", AttrValue(Str("#111"))>> >>],
       Leaf(1, "line",
           << <<"enabled", AttrValue(Bool(FALSE))>>,
              <<"lineWidth", AttrValue(Num("2"))>>,
              <<"color", AttrValue(Str("#222"))>> >>) >>

StyleSets == <<PointsAndLines, Dynamic, Failing, Finals, Partial, Curves, Overrides>>

\* a named-style reference in the list of a rule (0: in the top-level list)
Reference(parent) == [Style0 EXCEPT !.parent = parent, !.isReference = TRUE]
BiasGroup(style, group) == [style EXCEPT !.renderOrderBiasGroup = group]
BiasRange(style, min, max) ==
    [style EXCEPT !.hasRenderOrderBiasRange = TRUE, !.renderOrderBiasRange = <<min, max>>]

\* the rules the generated style trees are made of
Shapes(parent) ==
    << Leaf(parent, "line", <<>>),
       RenderOrder(Leaf(parent, "line", <<>>), 5),
       BiasRange(BiasGroup(Leaf(parent, "line", <<>>), "g"), 0, 1),
       BiasGroup(Leaf(parent, "line", <<>>), "g"),
       RenderOrder(BiasGroup(Leaf(parent, "line", <<>>), "g"), 7),
       BiasRange(BiasGroup(Leaf(parent, "circles", <<>>), "g"), -1, 1),
       BiasRange(BiasGroup(Leaf(parent, "line", <<>>), ""), 0, 0),
       Leaf(parent, NoTechnique, <<>>),
       Reference(parent) >>

MaxRules == 3

\* a style tree of the chosen shapes: all at the top level, or the first
\* two in the list of a rule with nested styles and the others after it
TreeOf(shapes, nested) ==
    IF nested
    THEN <<Group(0)>> \o [i \in 1..Len(shapes) |->
                             Shapes(IF i <= 2 THEN 1 ELSE 0)[shapes[i]]]
    ELSE [i \in 1..Len(shapes) |-> Shapes(0)[shapes[i]]]

Trees ==
    {TreeOf(shapes, nested) :
        shapes \in UNION {[1..n -> 1..Len(Shapes(0))] : n \in 1..MaxRules},
        nested \in BOOLEAN}

\* the environment of the calls on the generated trees
TreeEnvs == {5}

(***************************************************************************)
(* Specification.                                                          *)
(***************************************************************************)
\* history[i]: what the i-th call did
Call(e, st) ==
    [env |-> e,
     thrown |-> st.thrown,
     thrownAt |-> st.trace.thrownAt,
     result |-> IF st.thrown = "none" THEN st.result ELSE <<>>,
     matched |-> st.trace.matched,
     created |-> st.trace.created,
     pushed |-> st.trace.pushed,
     tuples |-> st.trace.tuples,
     techniques |-> Len(st.techniques)]

\* what the constructor writes on the rules of its tree, as seen on the
\* caller's objects: a rule of the tree that is the caller's own object
\* shows every field written
writeStyles(objects, tree) ==
    [i \in 1..Len(objects) |->
        IF i <= Len(tree) /\ tree[i].owner = 0 THEN tree[i] ELSE objects[i]]

\* what a call writes on the rules of its tree (_whenExpr, the attribute
\* lists, the cached techniques), as seen on other objects: the objects
\* that are the rules of the tree themselves show every field written
writeParams(objects, params) ==
    [i \in 1..Len(objects) |->
        IF i <= Len(styleSet) /\ styleSet[i].owner = 0 THEN params[i] ELSE objects[i]]

\* new StyleSetEvaluator(decl): when the constructor throws there is no
\* evaluator
constructor(decl) ==
    /\ declarations = IF constructorThrows(decl) THEN decl
                      ELSE writeStyles(decl, constructStyleSet(decl))
    /\ constructorThrown = IF constructorThrows(decl) THEN "TypeError" ELSE "none"
    /\ styleSet = IF constructorThrows(decl) THEN <<>> ELSE constructStyleSet(decl)

\* the fields of a new evaluator, and no call made yet
NewEvaluator ==
    /\ styleParams = [r \in 1..Len(styleSet) |-> Params0]
    /\ m_techniques = <<>>
    /\ m_exprPool = {}
    /\ m_cachedResults = <<>>
    /\ calls = 0
    /\ lastEnv = 0
    /\ result = <<>>
    /\ thrown = "none"
    /\ decodedTechniques = <<>>
    /\ declarationParams = [i \in 1..Len(declarations) |-> Params0]
    /\ other = [styleParams |-> [r \in 1..Len(styleSet) |-> Params0],
                m_techniques |-> <<>>,
                m_exprPool |-> {},
                m_cachedResults |-> <<>>,
                calls |-> 0,
                result |-> <<>>,
                thrown |-> "none"]
    /\ trace = Trace0
    /\ history = <<>>

\* nothing but the evaluator is in use
AuxIdle ==
    /\ NoCall
    /\ NewMapControls
    /\ NewFeaturesDataSource
    /\ NewPoiManager

Init ==
    /\ \E i \in 1..Len(StyleSets) : constructor(StyleSets[i])
    /\ NewEvaluator
    /\ AuxIdle

\* one call of getMatchingTechniques for the environment Envs[e]
GetMatchingTechniques(e) ==
    /\ constructorThrown = "none"
    /\ calls < MaxCalls
    /\ \E st \in {getMatchingTechniques(Envs[e])} :
           /\ styleParams' = st.params
           /\ m_techniques' = st.techniques
           /\ m_exprPool' = st.pool
           /\ m_cachedResults' = st.cache
           /\ result' = IF st.thrown = "none" THEN st.result ELSE <<>>
           /\ thrown' = st.thrown
           /\ trace' = st.trace
           /\ history' = Append(history, Call(e, st))
           /\ declarationParams' = writeParams(declarationParams, st.params)
           /\ other' = [other EXCEPT !.styleParams = writeParams(@, st.params)]
    /\ calls' = calls + 1
    /\ lastEnv' = e
    /\ UNCHANGED <<declarations, constructorThrown, styleSet, decodedTechniques>>
    /\ UNCHANGED auxVars

\* one call of getMatchingTechniques of the second evaluator, whose tree is
\* a clone of the same declarations and whose fields are its own
OtherGetMatchingTechniques(e) ==
    /\ constructorThrown = "none"
    /\ other.calls < MaxCalls
    /\ \E st \in {matchingTechniques(other.styleParams, other.m_techniques,
                                      other.m_exprPool, other.m_cachedResults,
                                      Envs[e])} :
           /\ other' = [styleParams |-> st.params,
                        m_techniques |-> st.techniques,
                        m_exprPool |-> st.pool,
                        m_cachedResults |-> st.cache,
                        calls |-> other.calls + 1,
                        result |-> IF st.thrown = "none" THEN st.result ELSE <<>>,
                        thrown |-> st.thrown]
           /\ declarationParams' = writeParams(declarationParams, st.params)
           /\ styleParams' = writeParams(styleParams, st.params)
    /\ UNCHANGED <<declarations, constructorThrown, styleSet, m_techniques,
                   m_exprPool, m_cachedResults, calls, lastEnv, result, thrown,
                   decodedTechniques, trace, history>>
    /\ UNCHANGED auxVars

\* a read of the getter decodedTechniques
DecodedTechniques ==
    /\ constructorThrown = "none"
    /\ decodedTechniques' =
          [i \in 1..Len(m_techniques) |-> makeDecodedTechnique(m_techniques[i])]
    /\ UNCHANGED <<declarations, constructorThrown, styleSet, styleParams,
                   m_techniques, m_exprPool, m_cachedResults, calls, lastEnv,
                   result, thrown, declarationParams, other, trace, history>>
    /\ UNCHANGED auxVars

Next ==
    \/ \E e \in 1..Len(Envs) : GetMatchingTechniques(e)
    \/ DecodedTechniques

Spec == Init /\ [][Next]_vars

\* evaluators constructed from the generated style trees
InitTrees ==
    /\ \E decl \in Trees : constructor(decl)
    /\ NewEvaluator
    /\ AuxIdle

NextTrees == \E e \in TreeEnvs : GetMatchingTechniques(e)

SpecTrees == InitTrees /\ [][NextTrees]_vars

\* the environments of the calls on two evaluators
TwoEnvs == {3, 5}

\* two evaluators constructed from the same style set, called in any order
NextTwo ==
    \/ \E e \in TwoEnvs : GetMatchingTechniques(e)
    \/ \E e \in TwoEnvs : OtherGetMatchingTechniques(e)

SpecTwo == Init /\ [][NextTwo]_vars

\* the variables of the evaluator
evaluatorVars ==
    <<declarations, constructorThrown, styleSet, styleParams, m_techniques,
      m_exprPool, m_cachedResults, calls, lastEnv, result, thrown,
      decodedTechniques, declarationParams, other, trace, history>>

\* an evaluator of the empty style set, which is not called
NoEvaluator ==
    /\ constructor(<<>>)
    /\ NewEvaluator

\* the state that a call of a function leaves alone
objectVars == <<evaluatorVars, controlVars, dataSourceVars, poiVars>>

\* no object but the arguments of the function is in use
NoObjects ==
    /\ NoEvaluator
    /\ NewMapControls
    /\ NewFeaturesDataSource
    /\ NewPoiManager

(***************************************************************************)
(* mergeTechniqueDescriptor called with descriptors of two attributes.     *)
(***************************************************************************)
MaxDescriptors == 2

\* the values of AttrScope
AttrScope == {"Feature", "Technique", "Renderer"}

\* descriptors for the attributes color and opacity: with attrScopes for
\* none, one or both of them, or without attrScopes
Descriptors ==
    {NoScopesDescriptor}
        \cup {Descriptor(scopes) :
                 scopes \in UNION {[names -> AttrScope] :
                                      names \in SUBSET {"color", "opacity"}}}

InitMerge ==
    /\ NoObjects
    /\ \E n \in 0..MaxDescriptors : arguments \in [1..n -> Descriptors]
    /\ returned = [done |-> FALSE]

\* mergeTechniqueDescriptor(...arguments)
MergeTechniqueDescriptor ==
    /\ ~returned.done
    /\ returned' = [done |-> TRUE,
                    value |-> mergeTechniqueDescriptor(arguments),
                    given |-> arguments]
    /\ arguments' = mergedArguments(arguments)
    /\ UNCHANGED objectVars

NextMerge == MergeTechniqueDescriptor

SpecMerge == InitMerge /\ [][NextMerge]_vars

(***************************************************************************)
(* Vocabulary of the properties.                                           *)
(***************************************************************************)
Rules == 1..Len(styleSet)

RECURSIVE IsBelow(_, _)
\* q lies in the subtree under r
IsBelow(q, r) ==
    /\ styleSet[q].parent # 0
    /\ \/ styleSet[q].parent = r
       \/ IsBelow(styleSet[q].parent, r)

\* q comes after r in pre-order and is not in the subtree of r: a following
\* sibling of r or of an ancestor of r, or a rule below such a sibling
IsAfter(q, r) == q > r /\ ~IsBelow(q, r)

\* a leaf rule with a technique other than "none"
YieldsTechnique(r) ==
    /\ ~styleSet[r].hasStyles
    /\ styleSet[r].technique \notin {NoTechnique, "none"}

Range(seq) == {seq[i] : i \in 1..Len(seq)}

\* the _index and the _styleSetIndex of the technique behind a reference
IndexOf(technique) == m_techniques[technique]["_index"].val
StyleSetIndexOf(technique) == m_techniques[technique]["_styleSetIndex"].val
Indices(techniques) == [i \in 1..Len(techniques) |-> IndexOf(techniques[i])]

IsStyleSet(decl) == styleSet = constructStyleSet(decl)

\* the calls so far that returned
Returned == {i \in 1..Len(history) : history[i].thrown = "none"}

\* the calls so far in which rule r matched
MatchesOf(r) == {i \in 1..Len(history) : r \in history[i].matched}

\* call i pushed a technique for rule r; the technique it pushed
PushedIn(i, r) == \E k \in 1..Len(history[i].pushed) : history[i].pushed[k].rule = r
TechniqueOf(i, r) ==
    history[i].pushed[CHOOSE k \in 1..Len(history[i].pushed) :
                          history[i].pushed[k].rule = r].technique

\* the tuples of TechniqueScope values evaluated so far, each with its rule
\* and the technique it resolved to
AllTuples == UNION {Range(history[i].tuples) : i \in 1..Len(history)}

RECURSIVE styleStackOf(_)
\* the style stack when rule r is processed: its ancestors, outermost first
styleStackOf(r) ==
    IF styleSet[r].parent = 0 THEN <<>>
    ELSE Append(styleStackOf(styleSet[r].parent), styleSet[r].parent)

\* the attribute declarations of rule r: those of its ancestors, then its own
DeclaredAttributes(r) == attributesOf(Append(styleStackOf(r), r))

\* the descriptor checkStyleDynamicAttributes looks the scopes up in
DescriptorOf(r) ==
    IF styleSet[r].technique \in DOMAIN techniqueDescriptors
    THEN techniqueDescriptors[styleSet[r].technique]
    ELSE emptyTechniqueDescriptor

\* the declared attributes of rule r that are TechniqueScope expressions
TechniqueScopeAttributes(r) ==
    {k \in 1..Len(DeclaredAttributes(r)) :
        /\ DeclaredAttributes(r)[k][2].k = "json"
        /\ isJsonExpr(DeclaredAttributes(r)[k][2].json)
        /\ techniqueAttrType(DeclaredAttributes(r)[k][1], DescriptorOf(r)) = "Technique"}

\* the declared attributes of rule r that are expressions and fail to parse
MalformedAttributes(r) ==
    {k \in 1..Len(DeclaredAttributes(r)) :
        /\ DeclaredAttributes(r)[k][2].k = "json"
        /\ isJsonExpr(DeclaredAttributes(r)[k][2].json)
        /\ ~fromJSON(DeclaredAttributes(r)[k][2].json).ok}

\* the feature attributes an expression reads
variablesOf(expr) == {x.name : x \in {y \in subExprs(expr) : y.op = "get"}}

\* the feature attributes the FeatureScope expressions of rule r read
FeatureVariables(r) ==
    UNION {variablesOf(styleParams[r]._dynamicFeatureAttributes[k].expr) :
              k \in 1..Len(styleParams[r]._dynamicFeatureAttributes)}

\* the TechniqueScope expressions of rule r evaluated for an environment
TechniqueValues(r, env) ==
    evaluateAttributes(styleParams[r]._dynamicTechniqueAttributes, env, <<>>).values

\* two environments that agree on every attribute outside names
DifferOnlyIn(env1, env2, names) ==
    \A n \in (DOMAIN env1 \cup DOMAIN env2) \ names :
        /\ n \in DOMAIN env1 \cap DOMAIN env2
        /\ env1[n] = env2[n]

\* rule r as it was declared: the evaluator's tree has the positions of the
\* declarations without the nested references
Declared(r) == cloneStyle(declarations)[r]

\* the leaf rules with a technique that declare neither a render order nor
\* a bias group
AutoRules ==
    {r \in Rules : /\ ~styleSet[r].hasStyles
                   /\ styleSet[r].technique # NoTechnique
                   /\ ~Declared(r).hasRenderOrder
                   /\ Declared(r).renderOrderBiasGroup = NoGroup}

\* m_renderOrderBiasGroups after construction: the render order of every
\* registered bias group
m_renderOrderBiasGroups == computeStyleSet(declarations).groups

\* the rules that declare a render order and no bias group
ExplicitRules ==
    {r \in Rules : /\ Declared(r).hasRenderOrder
                   /\ Declared(r).renderOrderBiasGroup = NoGroup}

\* the evaluator's tree had the leaf rule r not been declared
WithoutRule(r) == constructStyleSet(removeAt(cloneStyle(declarations), r))

\* the values JavaScript treats as false
Falsy == {Undefined, Null, Bool(FALSE), Num("0"), NaN, Str("")}

\* the condition of rule r, compiled from its declaration and evaluated on
\* its own for an environment, gives a value that is not falsy; a rule
\* without condition holds for every environment
WhenHolds(r, env) ==
    \/ ~styleSet[r].hasWhen
    \/ LET when == IF styleSet[r].whenIsArray THEN fromJSON(styleSet[r].whenJson)
                    ELSE parse(styleSet[r].whenTokens)
        IN  /\ when.ok
            /\ ~evaluate(when.expr, env, <<>>).err
            /\ evaluate(when.expr, env, <<>>).v \notin Falsy

\* the first rule after rule r and its subtree, 0 when there is none
NextAfter(r) ==
    IF \E q \in Rules : IsAfter(q, r)
    THEN CHOOSE q \in Rules : IsAfter(q, r) /\ \A p \in Rules : IsAfter(p, r) => q <= p
    ELSE 0

(***************************************************************************)
(* C1: once a rule marked final: true matches, no rule that comes later in *)
(* pre-order (its following siblings and the following siblings of its     *)
(* ancestors, with their subtrees) is evaluated or contributes a technique *)
(* to the result.                                                          *)
(***************************************************************************)
C1_FinalStopsTraversal ==
    \A r \in trace.matched :
        styleSet[r].final =>
            \A q \in Rules :
                IsAfter(q, r) =>
                    /\ q \notin Range(trace.visited)
                    /\ \A i \in 1..Len(trace.pushed) : trace.pushed[i].rule # q

(***************************************************************************)
(* C2: in a call that returns, every rule that matched and is a leaf with  *)
(* a technique contributes exactly one technique, and the result lists the *)
(* techniques in the pre-order of the rules that produced them, whatever   *)
(* their renderOrder values.                                               *)
(***************************************************************************)
C2_ResultInTraversalOrder ==
    thrown = "none" =>
        /\ Len(result) = Len(trace.pushed)
        /\ {trace.pushed[i].rule : i \in 1..Len(trace.pushed)}
             = {r \in trace.matched : YieldsTechnique(r)}
        /\ \A i \in 1..Len(result) :
              /\ StyleSetIndexOf(result[i])
                   = Num(ToString(styleSet[trace.pushed[i].rule]._styleSetIndex))
              /\ m_techniques[result[i]]["name"].val
                   = Str(styleSet[trace.pushed[i].rule].technique)
        /\ \A i, j \in 1..Len(trace.pushed) :
              i < j => trace.pushed[i].rule < trace.pushed[j].rule

\* the two point rules both match and the technique with render order
\* 10001 is listed before the one with render order 10000
C2_Witness ==
    /\ IsStyleSet(PointsAndLines)
    /\ thrown = "none"
    /\ Len(result) = 3
    /\ m_techniques[result[1]]["renderOrder"].val = Num("10001")
    /\ m_techniques[result[2]]["renderOrder"].val = Num("10000")
    /\ m_techniques[result[1]]["size"].val = Num("6")
    /\ m_techniques[result[2]]["size"].val = Num("8")

C4_OneTechniquePerTuple ==
    \A a, b \in AllTuples :
        a.rule = b.rule => (a.technique = b.technique <=> a.values = b.values)

(***************************************************************************)
(* C5: a leaf rule with a technique and without TechniqueScope dynamic     *)
(* attributes creates its technique on its first match, creates none on a  *)
(* later match, and every match pushes that same technique.                *)
(***************************************************************************)
C5_StaticTechniqueCreatedOnFirstMatch ==
    \A r \in Rules :
        (YieldsTechnique(r) /\ TechniqueScopeAttributes(r) = {}) =>
            \A i \in MatchesOf(r) :
                /\ (r \in history[i].created) <=> (\A j \in MatchesOf(r) : i <= j)
                /\ PushedIn(i, r)
                /\ \A j \in MatchesOf(r) :
                      PushedIn(j, r) => TechniqueOf(i, r) = TechniqueOf(j, r)

(***************************************************************************)
(* C6: two calls that pushed a technique for the same rule, with           *)
(* environments that differ only in attributes read by the rule's          *)
(* FeatureScope expressions and with equal evaluated TechniqueScope        *)
(* values, pushed the same technique (same _index).                        *)
(***************************************************************************)
C6_FeatureScopeNotInCacheKey ==
    \A i, j \in 1..Len(history) :
        \A r \in Rules :
            (/\ PushedIn(i, r)
             /\ PushedIn(j, r)
             /\ DifferOnlyIn(Envs[history[i].env], Envs[history[j].env],
                             FeatureVariables(r))
             /\ TechniqueValues(r, Envs[history[i].env])
                   = TechniqueValues(r, Envs[history[j].env]))
            => IndexOf(TechniqueOf(i, r)) = IndexOf(TechniqueOf(j, r))

\* the line rule of the style set Dynamic, whose lineWidth reads w, matched
\* for two environments that differ in w only and has TechniqueScope
\* attributes; both calls pushed the same technique, which holds the
\* lineWidth expression
C6_Witness ==
    /\ IsStyleSet(Dynamic)
    /\ FeatureVariables(3) = {"w"}
    /\ Len(styleParams[3]._dynamicTechniqueAttributes) = 2
    /\ \E i, j \in Returned :
          /\ history[i].env = 3
          /\ history[j].env = 4
          /\ PushedIn(i, 3)
          /\ PushedIn(j, 3)
          /\ TechniqueOf(i, 3) = TechniqueOf(j, 3)
          /\ m_techniques[TechniqueOf(i, 3)]["lineWidth"].k = "expr"

(***************************************************************************)
(* C7: the technique at position i of the techniques list (counted from    *)
(* 0) has _index i, so the values increase with the creation order and no  *)
(* value is assigned twice.                                                *)
(***************************************************************************)
C7_IndexIsPosition ==
    \A i \in 1..Len(m_techniques) :
        m_techniques[i]["_index"] = ValueOf(Num(ToString(i - 1)))

\* techniques created by more than one call
C7_Witness ==
    /\ Len(m_techniques) >= 3
    /\ \E i \in 2..Len(history) :
          /\ history[i - 1].techniques > 0
          /\ history[i].techniques > history[i - 1].techniques

(***************************************************************************)
(* C8: a call of getMatchingTechniques, whether it returns or throws,      *)
(* leaves every technique that was in the list at its position and         *)
(* unchanged; it can only append.                                          *)
(***************************************************************************)
C8_TechniquesAppendOnly ==
    [][/\ Len(m_techniques') >= Len(m_techniques)
       /\ \A i \in 1..Len(m_techniques) : m_techniques'[i] = m_techniques[i]]_vars

\* after a call that returned techniques, one call appended a technique and
\* one call threw
C8_Witness ==
    /\ Len(history) = 3
    /\ Len(history[1].result) > 0
    /\ history[2].techniques > history[1].techniques
    /\ history[3].thrown # "none"
    /\ Len(m_techniques) >= history[2].techniques

(***************************************************************************)
(* C9: a rule whose condition failed to parse or to evaluate did not       *)
(* match, no rule below it was processed, the failure did not end the      *)
(* call, and the first rule after it was processed.                        *)
(***************************************************************************)
C9_WhenErrorSkipsRule ==
    \A r \in trace.whenFailed :
        /\ r \notin trace.matched
        /\ \A q \in Rules : IsBelow(q, r) => q \notin Range(trace.visited)
        /\ trace.thrownAt # r
        /\ NextAfter(r) # 0 => NextAfter(r) \in Range(trace.visited)

\* in the style set Failing two conditions fail to parse and one fails to
\* evaluate; the call returns the techniques of two later rules
C9_Witness ==
    /\ IsStyleSet(Failing)
    /\ thrown = "none"
    /\ trace.whenFailed = {1, 2, 4}
    /\ 3 \notin Range(trace.visited)
    /\ Len(result) = 2
    /\ {trace.pushed[k].rule : k \in 1..Len(trace.pushed)} = {5, 7}

(***************************************************************************)
(* C10: when an attribute expression of a matched leaf rule with a         *)
(* technique fails to parse, the error does not end the call: the rule     *)
(* still pushes its technique and the first rule after it is processed     *)
(* (unless the rule is final).                                             *)
(***************************************************************************)
C10_MalformedAttributeIgnored ==
    \A r \in trace.matched :
        (YieldsTechnique(r) /\ MalformedAttributes(r) # {}) =>
            /\ thrown # "ParseError"
            /\ \E k \in 1..Len(trace.pushed) : trace.pushed[k].rule = r
            /\ (NextAfter(r) # 0 /\ ~styleSet[r].final)
                  => NextAfter(r) \in Range(trace.visited)

(***************************************************************************)
(* C11: when the evaluation of a TechniqueScope attribute expression of a  *)
(* matched rule fails, the call ends with that error at that rule, and the *)
(* rule creates, pushes and caches no technique in the call.               *)
(***************************************************************************)
C11_AttributeEvaluationErrorPropagates ==
    \A r \in trace.matched :
        (/\ YieldsTechnique(r)
         /\ styleParams[r].hasDynamicTechniques
         /\ evaluateAttributes(styleParams[r]._dynamicTechniqueAttributes,
                               Envs[lastEnv], <<>>).err)
        => /\ thrown = "EvaluationError"
           /\ trace.thrownAt = r
           /\ r \notin trace.created
           /\ \A k \in 1..Len(trace.pushed) : trace.pushed[k].rule # r
           /\ \A key \in DOMAIN styleParams[r]._dynamicTechniques :
                 styleParams[r]._dynamicTechniques[key]
                    <= (IF Len(history) > 1
                        THEN history[Len(history) - 1].techniques ELSE 0)

\* the opacity of the circles rule of the style set Failing is
\* ["number", ["get", "t"]]: the second call, with t = null, ends with the
\* error after an earlier call with t = 1 cached a technique for the rule
C11_Witness ==
    /\ IsStyleSet(Failing)
    /\ Len(history) = 2
    /\ history[1].thrown = "none"
    /\ 5 \in history[1].created
    /\ lastEnv = 1
    /\ thrown = "EvaluationError"
    /\ trace.thrownAt = 5
    /\ 5 \in trace.matched
    /\ Cardinality(DOMAIN styleParams[5]._dynamicTechniques) = 1

(***************************************************************************)
(* C12: the render orders of the leaf rules with a technique, without      *)
(* declared render order and without bias group are assigned and strictly  *)
(* increase in pre-order, whatever the other rules of the tree declare.    *)
(***************************************************************************)
C12_DefaultRenderOrdersIncrease ==
    /\ \A r \in AutoRules : styleSet[r].hasRenderOrder
    /\ \A r, q \in AutoRules :
          r < q => styleSet[r].renderOrder < styleSet[q].renderOrder

\* two such rules, the first one nested, with a rule between them that
\* reserves the range [-1, 1] for its bias group
C12_Witness ==
    /\ Len(styleSet) = 4
    /\ AutoRules = {2, 4}
    /\ styleSet[2].parent = 1
    /\ styleSet[3].hasRenderOrderBiasRange
    /\ styleSet[3].renderOrderBiasRange = <<-1, 1>>
    /\ styleSet[2].renderOrder = 0
    /\ styleSet[3].renderOrder = 2
    /\ styleSet[4].renderOrder = 4

(***************************************************************************)
(* C13: any two rules that declare the same non-empty bias group have the  *)
(* same render order after construction.                                   *)
(***************************************************************************)
C13_BiasGroupSharesRenderOrder ==
    \A r, q \in Rules :
        (/\ Declared(r).renderOrderBiasGroup \notin {NoGroup, ""}
         /\ Declared(r).renderOrderBiasGroup = Declared(q).renderOrderBiasGroup)
        => /\ styleSet[r].hasRenderOrder = styleSet[q].hasRenderOrder
           /\ styleSet[r].renderOrder = styleSet[q].renderOrder

(***************************************************************************)
(* C14: a rule that declares a render order and a bias group that has a    *)
(* render order ends up with the render order of the group.                *)
(***************************************************************************)
C14_BiasGroupOverridesRenderOrder ==
    \A r \in Rules :
        (/\ Declared(r).hasRenderOrder
         /\ Declared(r).renderOrderBiasGroup \in DOMAIN m_renderOrderBiasGroups)
        => styleSet[r].renderOrder
             = m_renderOrderBiasGroups[Declared(r).renderOrderBiasGroup]

(***************************************************************************)
(* C15: a rule that declares a render order and no bias group keeps that   *)
(* render order, and (for a leaf rule) every other rule has the render     *)
(* order it would have had the rule not been in the tree.                  *)
(***************************************************************************)
C15_ExplicitRenderOrderKept ==
    \A r \in ExplicitRules :
        /\ styleSet[r].hasRenderOrder
        /\ styleSet[r].renderOrder = Declared(r).renderOrder
        /\ ~styleSet[r].hasStyles =>
              \A q \in Rules \ {r} :
                  LET without == WithoutRule(r)[IF q < r THEN q ELSE q - 1]
                  IN  /\ styleSet[q].hasRenderOrder = without.hasRenderOrder
                      /\ styleSet[q].renderOrder = without.renderOrder

\* a rule with the declared render order 5 between two rules that get the
\* default render orders 0 and 1
C15_Witness ==
    /\ Len(styleSet) = 3
    /\ ExplicitRules = {2}
    /\ AutoRules = {1, 3}
    /\ styleSet[1].renderOrder = 0
    /\ styleSet[2].renderOrder = 5
    /\ styleSet[3].renderOrder = 1

(***************************************************************************)
(* C16: constructing an evaluator from a style set with references, at the *)
(* top level or nested, ends without error, and the evaluator's tree has   *)
(* every declared rule that is not a reference and no reference.           *)
(***************************************************************************)
C16_ReferencesDropped ==
    /\ constructorThrown = "none"
    /\ \A r \in Rules : ~isReference(styleSet[r])
    /\ Len(styleSet)
          = Cardinality({i \in 1..Len(declarations) : ~isReference(declarations[i])})

(***************************************************************************)
(* C17: every rule without nested styles has a _styleSetIndex, the number  *)
(* of such rules before it in pre-order; a rule with nested styles has     *)
(* none; every technique pushed for a rule carries the rule's              *)
(* _styleSetIndex.                                                         *)
(***************************************************************************)
C17_StyleSetIndexCountsLeaves ==
    /\ \A r \in Rules :
          IF styleSet[r].hasStyles THEN ~styleSet[r].hasStyleSetIndex
          ELSE /\ styleSet[r].hasStyleSetIndex
               /\ styleSet[r]._styleSetIndex
                     = Cardinality({q \in Rules : q < r /\ ~styleSet[q].hasStyles})
    /\ \A i \in 1..Len(history) :
          \A k \in 1..Len(history[i].pushed) :
              StyleSetIndexOf(history[i].pushed[k].technique)
                 = Num(ToString(styleSet[history[i].pushed[k].rule]._styleSetIndex))

\* a rule with nested styles, below it a rule with a technique and one
\* without, after it another rule with a technique; the two techniques
\* carry the indices 0 and 2
C17_Witness ==
    /\ Len(styleSet) = 4
    /\ styleSet[1].hasStyles
    /\ styleSet[2].parent = 1
    /\ styleSet[3].parent = 1
    /\ styleSet[3].technique = NoTechnique
    /\ styleSet[3]._styleSetIndex = 1
    /\ styleSet[4].parent = 0
    /\ Len(m_techniques) = 2
    /\ StyleSetIndexOf(1) = Num("0")
    /\ StyleSetIndexOf(2) = Num("2")

(***************************************************************************)
(* C19: a read of decodedTechniques returns, for every technique of the    *)
(* list and in the same order, exactly the attributes of the technique     *)
(* whose value is not an expression (_index and _styleSetIndex among       *)
(* them), and leaves the list of techniques as it was.                     *)
(***************************************************************************)
C19_DecodedTechniquesStripExpressions ==
    [][decodedTechniques' # decodedTechniques =>
          /\ m_techniques' = m_techniques
          /\ Len(decodedTechniques') = Len(m_techniques)
          /\ \A i \in 1..Len(m_techniques) :
                /\ DOMAIN decodedTechniques'[i]
                     = {n \in DOMAIN m_techniques[i] : m_techniques[i][n].k # "expr"}
                /\ {"_index", "_styleSetIndex"} \subseteq DOMAIN decodedTechniques'[i]
                /\ \A n \in DOMAIN decodedTechniques'[i] :
                      decodedTechniques'[i][n] = m_techniques[i][n]]_vars

\* three techniques of the style set PointsAndLines were read: the first
\* lost its lineWidth expression, the second kept its interpolated
\* lineWidth
C19_Witness ==
    /\ IsStyleSet(PointsAndLines)
    /\ Len(m_techniques) = 3
    /\ Len(decodedTechniques) = 3
    /\ "lineWidth" \in DOMAIN m_techniques[1]
    /\ m_techniques[1]["lineWidth"].k = "expr"
    /\ "lineWidth" \notin DOMAIN decodedTechniques[1]
    /\ "lineWidth" \in DOMAIN decodedTechniques[2]
    /\ decodedTechniques[2]["lineWidth"].k = "interp"
    /\ "color" \in DOMAIN decodedTechniques[3]
    /\ decodedTechniques[3]["color"].val = Str("#333")

(***************************************************************************)
(* C20: a rule pushed a technique in a call only if its condition and the  *)
(* condition of each of its ancestors hold for the environment of the      *)
(* call; a rule whose condition does not hold pushes nothing and no rule   *)
(* below it is processed.                                                  *)
(***************************************************************************)
C20_OnlyMatchingRulesContribute ==
    /\ \A k \in 1..Len(trace.pushed) :
          /\ WhenHolds(trace.pushed[k].rule, Envs[lastEnv])
          /\ \A q \in Rules :
                IsBelow(trace.pushed[k].rule, q) => WhenHolds(q, Envs[lastEnv])
    /\ \A r \in Range(trace.visited) :
          ~WhenHolds(r, Envs[lastEnv]) =>
              /\ \A k \in 1..Len(trace.pushed) : trace.pushed[k].rule # r
              /\ \A q \in Rules : IsBelow(q, r) => q \notin Range(trace.visited)

\* a point feature and the style set PointsAndLines: the condition of the
\* third rule (kind is line) does not hold, the two rules below it are not
\* processed, the rules 1, 2 and 6 contribute
C20_Witness ==
    /\ IsStyleSet(PointsAndLines)
    /\ lastEnv = 1
    /\ thrown = "none"
    /\ 3 \in Range(trace.visited)
    /\ ~WhenHolds(3, Envs[1])
    /\ {4, 5} \cap Range(trace.visited) = {}
    /\ [k \in 1..Len(trace.pushed) |-> trace.pushed[k].rule] = <<1, 2, 6>>
    /\ Len(result) = 3

(***************************************************************************)
(* C18: construction and calls leave the caller's declarations as they     *)
(* were declared, without _styleSetIndex, compiled expression, attribute   *)
(* list or cached technique on them; a call on one of two evaluators       *)
(* constructed from the same style set changes no rule cache, technique    *)
(* list or expression cache of the other.                                  *)
(***************************************************************************)
C18_DeclarationsAndEvaluatorsApart ==
    /\ [](/\ \E i \in 1..Len(StyleSets) : declarations = StyleSets[i]
          /\ \A i \in 1..Len(declarations) :
                /\ ~declarations[i].hasStyleSetIndex
                /\ declarationParams[i] = Params0)
    /\ [][/\ other' # other =>
                UNCHANGED <<styleParams, m_techniques, m_exprPool, m_cachedResults>>
          /\ <<styleParams, m_techniques, m_exprPool, m_cachedResults>>'
                # <<styleParams, m_techniques, m_exprPool, m_cachedResults>>
                => other' = other]_vars

\* both evaluators of the style set PointsAndLines were called, for a point
\* and for a line: each has its own techniques, compiled conditions and
\* cached techniques
C18_Witness ==
    /\ declarations = PointsAndLines
    /\ calls = 1
    /\ lastEnv = 3
    /\ other.calls = 1
    /\ Len(m_techniques) = 3
    /\ Len(other.m_techniques) = 1
    /\ styleParams[1].hasStaticTechnique
    /\ ~other.styleParams[1].hasStaticTechnique
    /\ other.styleParams[4].hasStaticTechnique
    /\ m_exprPool # other.m_exprPool

(***************************************************************************)
(* C21: a matched leaf rule whose technique is "none" pushes no technique  *)
(* to the result of any call and creates no technique: no call pushed or   *)
(* created one for such a rule, and no technique of the list has the name  *)
(* "none".                                                                 *)
(***************************************************************************)
C21_NoneYieldsNoTechnique ==
    /\ \A i \in 1..Len(history) :
          \A r \in history[i].matched :
              (~styleSet[r].hasStyles /\ styleSet[r].technique = "none") =>
                  /\ ~PushedIn(i, r)
                  /\ r \notin history[i].created
    /\ \A k \in 1..Len(m_techniques) : m_techniques[k]["name"].val # Str("none")

\* the rule with technique "none" of the style set Finals matched in the
\* first call, which returned an empty list and created nothing
C21_Witness ==
    /\ IsStyleSet(Finals)
    /\ Len(history) = 1
    /\ 4 \in history[1].matched
    /\ styleSet[4].technique = "none"
    /\ history[1].thrown = "none"
    /\ history[1].result = <<>>
    /\ m_techniques = <<>>

\* a matched descendant of rule r is marked final: true
FinalBelow(r) ==
    \E q \in Rules : IsBelow(q, r) /\ q \in trace.matched /\ styleSet[q].final

(***************************************************************************)
(* C22: in a call that returns, processStyle returned true for a rule      *)
(* exactly when the rule matched and it, or one of its matched             *)
(* descendants, is marked final: true; rules with nested styles and leaf   *)
(* rules without technique included.                                       *)
(***************************************************************************)
C22_FinishedIffFinalMatched ==
    thrown = "none" =>
        \A r \in Range(trace.visited) :
            r \in trace.finished <=>
                (r \in trace.matched /\ (styleSet[r].final \/ FinalBelow(r)))

(***************************************************************************)
(* C23: when a leaf rule with the technique "none" and final: true         *)
(* matches, processStyle reports that processing is finished and no rule   *)
(* after it in pre-order is evaluated; the rule pushes no technique.       *)
(***************************************************************************)
C23_NoneFinalStopsTraversal ==
    \A r \in trace.matched :
        (~styleSet[r].hasStyles /\ styleSet[r].technique = "none" /\ styleSet[r].final) =>
            /\ r \in trace.finished
            /\ \A q \in Rules : q > r => q \notin Range(trace.visited)
            /\ \A k \in 1..Len(trace.pushed) : trace.pushed[k].rule # r

\* in the style set Finals the rule with technique "none" is the last one
\* visited: the line rule after it is not evaluated
C23_Witness ==
    /\ IsStyleSet(Finals)
    /\ calls > 0
    /\ trace.visited = <<1, 3, 4>>
    /\ 4 \in trace.matched
    /\ styleSet[4].final
    /\ styleSet[5].technique = "line"
    /\ result = <<>>

(***************************************************************************)
(* C24: every call starts with an empty cache of expression results: after *)
(* a call, whether it returned or threw, every cached result is the value  *)
(* of its expression for the environment of that call, and the tuples of   *)
(* TechniqueScope values of the call are the values for that environment.  *)
(***************************************************************************)
C24_CacheHoldsOnlyCurrentValues ==
    calls > 0 =>
        /\ \A expr \in DOMAIN m_cachedResults :
              /\ ~evaluate(expr, Envs[lastEnv], <<>>).err
              /\ evaluate(expr, Envs[lastEnv], <<>>).v = m_cachedResults[expr]
        /\ \A k \in 1..Len(trace.tuples) :
              trace.tuples[k].values =
                  [i \in 1..Len(TechniqueValues(trace.tuples[k].rule, Envs[lastEnv])) |->
                      TechniqueValues(trace.tuples[k].rule, Envs[lastEnv])[i].val]

\* a call that threw is followed by a call for another environment that
\* returned, and the cache holds an expression whose value differs
\* between the two environments
C24_Witness ==
    /\ Len(history) = 2
    /\ history[1].thrown # "none"
    /\ history[2].thrown = "none"
    /\ history[1].env # history[2].env
    /\ \E expr \in DOMAIN m_cachedResults :
          evaluate(expr, Envs[history[1].env], <<>>).v # m_cachedResults[expr]

(***************************************************************************)
(* C25: the style stack is empty at the start of every top-level iteration *)
(* of every call, and no call ends with the error "Internal error: style   *)
(* stack cleanup failed", also after a call that threw inside a nested     *)
(* rule.                                                                   *)
(***************************************************************************)
C25_StyleStackEmptyAtTopLevel ==
    /\ \A k \in 1..Len(trace.stackSizes) : trace.stackSizes[k] = 0
    /\ thrown # "Internal error: style stack cleanup failed"
    /\ \A i \in 1..Len(history) :
          history[i].thrown # "Internal error: style stack cleanup failed"

\* the first call threw from the attribute evaluation of a nested rule,
\* the second went through three top-level iterations and returned
C25_Witness ==
    /\ IsStyleSet(Curves)
    /\ Len(history) = 2
    /\ history[1].thrown = "EvaluationError"
    /\ history[1].thrownAt = 3
    /\ styleSet[3].parent = 2
    /\ thrown = "none"
    /\ trace.stackSizes = <<0, 0, 0>>
    /\ 3 \in trace.matched

\* the k-th declared attribute of rule r is the only declaration of its
\* name among the rule and its ancestors
DeclaredOnce(r, k) ==
    \A j \in 1..Len(DeclaredAttributes(r)) :
        (/\ DeclaredAttributes(r)[j][1] = DeclaredAttributes(r)[k][1]
         /\ DeclaredAttributes(r)[j][2].k # "undefined") => j = k

\* the declared attributes of rule r that are well-formed JSON expressions
JsonAttributes(r) ==
    {k \in 1..Len(DeclaredAttributes(r)) :
        /\ DeclaredAttributes(r)[k][2].k = "json"
        /\ isJsonExpr(DeclaredAttributes(r)[k][2].json)
        /\ fromJSON(DeclaredAttributes(r)[k][2].json).ok
        /\ DeclaredOnce(r, k)}

\* the declared attributes of rule r that are interpolated-curve
\* definitions from which createInterpolatedProperty makes a property
CurveAttributes(r) ==
    {k \in 1..Len(DeclaredAttributes(r)) :
        /\ DeclaredAttributes(r)[k][2].k = "interp"
        /\ DeclaredAttributes(r)[k][2].valid
        /\ DeclaredOnce(r, k)}

\* the scope of the k-th declared attribute of rule r in the descriptor of
\* the rule's technique
ScopeOf(r, k) == techniqueAttrType(DeclaredAttributes(r)[k][1], DescriptorOf(r))

\* the technique holds the property name with the given content
Holds(technique, name, content) ==
    /\ name \in DOMAIN m_techniques[technique]
    /\ m_techniques[technique][name] = content

(***************************************************************************)
(* C26: the technique a call returns for a rule holds, for every attribute *)
(* the rule declares as a JSON expression: the value of the expression for *)
(* the environment of the call when the attribute is TechniqueScope, the   *)
(* expression itself when it is FeatureScope, and no property of that name *)
(* when the scope is the renderer's or the descriptor does not list it.    *)
(***************************************************************************)
C26_ExpressionAttributeByScope ==
    \A i \in 1..Len(trace.pushed) :
        \A k \in JsonAttributes(trace.pushed[i].rule) :
            CASE ScopeOf(trace.pushed[i].rule, k) = "Technique" ->
                    Holds(trace.pushed[i].technique,
                          DeclaredAttributes(trace.pushed[i].rule)[k][1],
                          ValueOf(evaluate(
                              fromJSON(DeclaredAttributes(trace.pushed[i].rule)[k][2].json).expr,
                              Envs[lastEnv], <<>>).v))
              [] ScopeOf(trace.pushed[i].rule, k) = "Feature" ->
                    Holds(trace.pushed[i].technique,
                          DeclaredAttributes(trace.pushed[i].rule)[k][1],
                          ExprOf(fromJSON(DeclaredAttributes(trace.pushed[i].rule)[k][2].json).expr))
              [] OTHER ->
                    DeclaredAttributes(trace.pushed[i].rule)[k][1]
                        \notin DOMAIN m_techniques[trace.pushed[i].technique]

(***************************************************************************)
(* C27: the technique a call returns for a rule holds, for every attribute *)
(* the rule declares as an interpolated curve, the interpolated property   *)
(* when the attribute is FeatureScope, TechniqueScope or of the renderer's *)
(* scope, and no property of that name when the descriptor does not list   *)
(* it; the tuples of the cache keys have one value per TechniqueScope      *)
(* expression, and only a rule with such an expression has a cache of      *)
(* dynamic techniques.                                                     *)
(***************************************************************************)
C27_InterpolatedAttributeForwarded ==
    /\ \A i \in 1..Len(trace.pushed) :
          \A k \in CurveAttributes(trace.pushed[i].rule) :
              IF ScopeOf(trace.pushed[i].rule, k) \in {"Feature", "Technique", "DynamicMaterial"}
              THEN Holds(trace.pushed[i].technique,
                         DeclaredAttributes(trace.pushed[i].rule)[k][1], Interpolated)
              ELSE DeclaredAttributes(trace.pushed[i].rule)[k][1]
                       \notin DOMAIN m_techniques[trace.pushed[i].technique]
    /\ \A i \in 1..Len(trace.tuples) :
          Len(trace.tuples[i].values)
              = Cardinality(TechniqueScopeAttributes(trace.tuples[i].rule))
    /\ \A r \in Rules :
          styleParams[r].hasDynamicTechniques => TechniqueScopeAttributes(r) # {}

\* the line rule of the style set Curves, whose attributes are all curves,
\* returned its static technique: three curves forwarded, one dropped
C27_Witness ==
    /\ IsStyleSet(Curves)
    /\ thrown = "none"
    /\ Len(trace.pushed) = 3
    /\ trace.pushed[1].rule = 1
    /\ Cardinality(CurveAttributes(1)) = 4
    /\ {ScopeOf(1, k) : k \in CurveAttributes(1)}
          = {"Feature", "Technique", "DynamicMaterial", "Static"}
    /\ Holds(trace.pushed[1].technique, "enabled", Interpolated)
    /\ Holds(trace.pushed[1].technique, "color", Interpolated)
    /\ "size" \notin DOMAIN m_techniques[trace.pushed[1].technique]
    /\ styleParams[1].partitioned
    /\ ~styleParams[1].hasDynamicTechniques
    /\ styleParams[1].hasStaticTechnique

\* the cache key processStyle builds for a tuple of values of rule r
KeyOf(r, values) ==
    makeCacheKey(<<ToString(styleSet[r]._styleSetIndex),
                   dynamicAttrKey([i \in 1..Len(values) |-> ValueOf(values[i])])>>)

(***************************************************************************)
(* C28: the cache key of a dynamic technique is injective: two tuples of   *)
(* TechniqueScope values of the same rule that have the same key are equal *)
(* component by component.                                                 *)
(***************************************************************************)
C28_CacheKeyInjective ==
    \A a, b \in AllTuples :
        (a.rule = b.rule /\ KeyOf(a.rule, a.values) = KeyOf(b.rule, b.values))
            => a.values = b.values

\* the rules that reserve render orders: the first rule of a bias group
\* that declares a range (every rule with a range for the group "", which
\* is never registered)
Reservers ==
    {r \in Rules :
        /\ Declared(r).renderOrderBiasGroup # NoGroup
        /\ Declared(r).hasRenderOrderBiasRange
        /\ \/ Declared(r).renderOrderBiasGroup = ""
           \/ \A q \in 1..(r - 1) :
                 ~(/\ Declared(q).renderOrderBiasGroup = Declared(r).renderOrderBiasGroup
                   /\ Declared(q).hasRenderOrderBiasRange)}

\* techniqueRenderOrder when the constructor reaches rule r: the counter
\* after the rules before it in pre-order
CounterBefore(r) ==
    computeStyleSet(SubSeq(cloneStyle(declarations), 1, r - 1)).techniqueRenderOrder

(***************************************************************************)
(* C29: the first rule of a bias group that declares a range [min, max]    *)
(* gets the counter as render order, moved up by |min| when min < 0, and   *)
(* no rule with an automatically assigned render order, before or after    *)
(* it, has a render order within [order + min, order + max].               *)
(***************************************************************************)
C29_BiasRangeReserved ==
    \A r \in Reservers :
        /\ styleSet[r].hasRenderOrder
        /\ styleSet[r].renderOrder =
              IF Declared(r).renderOrderBiasRange[1] < 0
              THEN CounterBefore(r) + abs(Declared(r).renderOrderBiasRange[1])
              ELSE CounterBefore(r)
        /\ \A q \in AutoRules :
              styleSet[q].renderOrder \notin
                  (styleSet[r].renderOrder + Declared(r).renderOrderBiasRange[1])
                  ..(styleSet[r].renderOrder + Declared(r).renderOrderBiasRange[2])

\* a rule with the range [-1, 1] between two rules with automatic render
\* orders: it gets 2 and reserves 1..3, the rules around it get 0 and 4
C29_Witness ==
    /\ Len(styleSet) = 3
    /\ 2 \in Reservers
    /\ AutoRules = {1, 3}
    /\ Declared(2).renderOrderBiasRange = <<-1, 1>>
    /\ styleSet[1].renderOrder = 0
    /\ styleSet[2].renderOrder = 2
    /\ styleSet[3].renderOrder = 4

\* the names of the entries of an attribute list
NamesOf(entries) == [i \in 1..Len(entries) |-> entries[i].name]

\* the names of the declared attributes of rule r at the given positions,
\* in the order of declaration: ancestors first, then the rule
DeclaredNames(r, positions) ==
    LET numbered == [k \in 1..Len(DeclaredAttributes(r)) |->
                        <<k, DeclaredAttributes(r)[k][1]>>]
        selected == SelectSeq(numbered, LAMBDA x : x[1] \in positions)
    IN  [i \in 1..Len(selected) |-> selected[i][2]]

\* the declared attributes of rule r that are constants
StaticAttributes(r) ==
    {k \in 1..Len(DeclaredAttributes(r)) :
        \/ DeclaredAttributes(r)[k][2].k = "value"
        \/ /\ DeclaredAttributes(r)[k][2].k = "json"
           /\ ~isJsonExpr(DeclaredAttributes(r)[k][2].json)}

\* the declared attributes of rule r that are FeatureScope expressions or
\* curves
FeatureScopeAttributes(r) ==
    {k \in 1..Len(DeclaredAttributes(r)) :
        /\ \/ /\ DeclaredAttributes(r)[k][2].k = "json"
              /\ isJsonExpr(DeclaredAttributes(r)[k][2].json)
           \/ /\ DeclaredAttributes(r)[k][2].k = "interp"
              /\ DeclaredAttributes(r)[k][2].valid
        /\ ScopeOf(r, k) = "Feature"}

\* the attribute lists of rule r
PartitionOf(params, r) ==
    <<params[r]._staticAttributes, params[r]._dynamicFeatureAttributes,
      params[r]._dynamicTechniqueAttributes, params[r]._dynamicForwaredAttributes>>

(***************************************************************************)
(* C30: a leaf rule with a technique has its attribute partition from its  *)
(* first match on; the partition holds the attributes of the ancestors     *)
(* followed by the rule's own, each in the list of its kind, and no later  *)
(* call changes it.                                                        *)
(***************************************************************************)
C30_PartitionOnceAndComplete ==
    /\ [](\A r \in Rules :
            /\ (YieldsTechnique(r) /\ MatchesOf(r) # {}) => styleParams[r].partitioned
            /\ styleParams[r].partitioned =>
                  /\ NamesOf(styleParams[r]._staticAttributes)
                        = DeclaredNames(r, StaticAttributes(r))
                  /\ NamesOf(styleParams[r]._dynamicFeatureAttributes)
                        = DeclaredNames(r, FeatureScopeAttributes(r))
                  /\ NamesOf(styleParams[r]._dynamicTechniqueAttributes)
                        = DeclaredNames(r, TechniqueScopeAttributes(r)))
    /\ [][\A r \in Rules :
             styleParams[r].partitioned =>
                 /\ styleParams'[r].partitioned
                 /\ PartitionOf(styleParams', r) = PartitionOf(styleParams, r)]_vars

(***************************************************************************)
(* C31: a rule whose attribute partitioning threw in a call keeps no       *)
(* partition, and every later call in which the rule matches throws at the *)
(* rule again and pushes no technique for it.                              *)
(***************************************************************************)
C31_PartitionAllOrNothing ==
    \A i \in 1..Len(history) :
        history[i].thrown = "ParseError" =>
            /\ ~styleParams[history[i].thrownAt].partitioned
            /\ \A j \in (i + 1)..Len(history) :
                  history[i].thrownAt \in history[j].matched =>
                      /\ history[j].thrown = "ParseError"
                      /\ history[j].thrownAt = history[i].thrownAt
                      /\ ~PushedIn(j, history[i].thrownAt)

\* the positions of the declarations of rule r itself among its declared
\* attributes, which start with those of its ancestors
OwnPositions(r) ==
    (Len(DeclaredAttributes(r)) - Len(processAttributes(styleSet[r])) + 1)
        ..Len(DeclaredAttributes(r))

\* the declarations of rule r itself whose name an ancestor declares too
Redeclared(r) ==
    {k \in OwnPositions(r) :
        /\ DeclaredAttributes(r)[k][2].k # "undefined"
        /\ \E j \in 1..Len(DeclaredAttributes(r)) \ OwnPositions(r) :
              /\ DeclaredAttributes(r)[j][1] = DeclaredAttributes(r)[k][1]
              /\ DeclaredAttributes(r)[j][2].k # "undefined"}

\* the k-th declared attribute of rule r is a constant, a FeatureScope or
\* TechniqueScope expression, or a curve that is forwarded
IsKept(r, k) ==
    \/ k \in StaticAttributes(r)
    \/ /\ DeclaredAttributes(r)[k][2].k = "json"
       /\ isJsonExpr(DeclaredAttributes(r)[k][2].json)
       /\ fromJSON(DeclaredAttributes(r)[k][2].json).ok
       /\ ScopeOf(r, k) \in {"Feature", "Technique"}
    \/ /\ DeclaredAttributes(r)[k][2].k = "interp"
       /\ DeclaredAttributes(r)[k][2].valid
       /\ ScopeOf(r, k) \in {"Feature", "Technique", "DynamicMaterial"}

\* what a technique holds for the k-th declared attribute of rule r when
\* this declaration is the one that counts
ContentOf(r, k, env) ==
    CASE DeclaredAttributes(r)[k][2].k = "value" ->
            ValueOf(DeclaredAttributes(r)[k][2].val)
      [] DeclaredAttributes(r)[k][2].k = "interp" -> Interpolated
      [] ~isJsonExpr(DeclaredAttributes(r)[k][2].json) ->
            ValueOf(DeclaredAttributes(r)[k][2].json.lit)
      [] ScopeOf(r, k) = "Technique" ->
            ValueOf(evaluate(fromJSON(DeclaredAttributes(r)[k][2].json).expr, env, <<>>).v)
      [] OTHER -> ExprOf(fromJSON(DeclaredAttributes(r)[k][2].json).expr)

(***************************************************************************)
(* C32: when a leaf rule declares an attribute that one of its ancestors   *)
(* declares too, the technique a call returns for the rule holds what the  *)
(* leaf declares, whatever the kinds of the two declarations.              *)
(***************************************************************************)
C32_NearestDeclarationWins ==
    \A i \in 1..Len(trace.pushed) :
        \A k \in Redeclared(trace.pushed[i].rule) :
            IsKept(trace.pushed[i].rule, k) =>
                Holds(trace.pushed[i].technique,
                      DeclaredAttributes(trace.pushed[i].rule)[k][1],
                      ContentOf(trace.pushed[i].rule, k, Envs[lastEnv]))

(***************************************************************************)
(* The cast operators called with up to MaxArgs arguments.                 *)
(***************************************************************************)
MaxArgs == 3

\* the environments of the calls: t is null in the first, 1 in the third
CastEnvs == {1, 3}

\* argument expressions: literals of the three types, variables, and a
\* cast that fails (kind is a string)
CastArgs ==
    {LiteralExpr(Num("1")), LiteralExpr(Str("a")), LiteralExpr(Bool(TRUE)),
     VarExpr("t"), VarExpr("kind"), CallExpr("number", <<VarExpr("kind")>>)}

InitCast ==
    /\ NoObjects
    /\ \E type \in CastOperators, e \in CastEnvs, n \in 0..MaxArgs :
          \E args \in [1..n -> CastArgs] :
              arguments = [type |-> type, args |-> args, env |-> Envs[e]]
    /\ returned = [done |-> FALSE]

\* the operator arguments.type called with arguments.args, by an evaluator
\* context with an empty cache of results
ConditionalCast ==
    /\ ~returned.done
    /\ \E call \in {conditionalCast(arguments.type, arguments.args, arguments.env, <<>>)} :
          returned' = [done |-> TRUE, err |-> call.err, value |-> call.v,
                      evaluated |-> DOMAIN call.cache, given |-> arguments]
    /\ UNCHANGED <<arguments, objectVars>>

NextCast == ConditionalCast

SpecCast == InitCast /\ [][NextCast]_vars

(***************************************************************************)
(* evaluateFeatureAttr called with a value, an expression or an            *)
(* interpolated property.                                                  *)
(***************************************************************************)
MaxLevel == 2

\* an InterpolatedProperty: control points (zoom level, value), the zoom
\* levels ascending
InterpolatedProperty(zoomLevels, values) ==
    [k |-> "interp", val |-> Undefined, expr |-> NoExpr,
     zoomLevels |-> zoomLevels, values |-> values]

\* isInterpolatedProperty
isInterpolatedProperty(attrValue) == attrValue.k = "interp"

\* getPropertyValue for a stepped property: the value of the last control
\* point at or below the level, the first value below all of them
getPropertyValue(property, level) ==
    IF \A i \in 1..Len(property.zoomLevels) : property.zoomLevels[i] > level
    THEN property.values[1]
    ELSE property.values[CHOOSE i \in 1..Len(property.zoomLevels) :
                            /\ property.zoomLevels[i] <= level
                            /\ \A j \in 1..Len(property.zoomLevels) :
                                  property.zoomLevels[j] <= level => j <= i]

\* createFeatureEnv; without a cache of results hasCache is FALSE
createFeatureEnv(env, storageLevel, hasCache, cachedExprResults) ==
    [env |-> env, storageLevel |-> storageLevel,
     hasCache |-> hasCache, cachedExprResults |-> cachedExprResults]

\* value == null: undefined or null
isNullish(value) == value \in {Undefined, Null}

\* evaluated === undefined
isUndefined(value) == value = Undefined

\* attrValue.evaluate(env.env, env.cachedExprResults)
evaluateExpr(expr, env) ==
    evaluate(expr, env.env, IF env.hasCache THEN env.cachedExprResults ELSE <<>>)

\* evaluateFeatureAttr: err when Expr.evaluate throws, else the returned
\* value, with the cache of results of the feature environment after the
\* call
evaluateFeatureAttr(attrValue, env, defaultValue) ==
    LET resolve(evaluated, cache) ==
            [err |-> FALSE,
             v |-> IF isUndefined(evaluated) THEN defaultValue ELSE evaluated,
             cache |-> cache]
        continue(res) ==
            IF res.err
            THEN [err |-> TRUE, v |-> Undefined, cache |-> env.cachedExprResults]
            ELSE resolve(res.v, IF env.hasCache THEN res.cache ELSE env.cachedExprResults)
    IN  IF attrValue.k = "expr" THEN continue(evaluateExpr(attrValue.expr, env))
        ELSE IF isInterpolatedProperty(attrValue)
        THEN resolve(getPropertyValue(attrValue, env.storageLevel), env.cachedExprResults)
        ELSE resolve(attrValue.val, env.cachedExprResults)

\* the attribute values of the calls
FeatureAttrValues ==
    {ValueOf(Undefined), ValueOf(Null), ValueOf(Bool(FALSE)), ValueOf(Num("0")),
     ValueOf(Str("a")),
     ExprOf(VarExpr("t")), ExprOf(VarExpr("w")), ExprOf(LiteralExpr(Null)),
     ExprOf(CallExpr("number", <<VarExpr("kind")>>)),
     InterpolatedProperty(<<1>>, <<Str("#fff")>>),
     InterpolatedProperty(<<0, 2>>, <<Num("0"), Num("4")>>)}

\* the environments of the calls: t is null, 1, or missing
FeatureEnvs == {1, 3, 7}

\* the caches of results of the calls: none, an empty one, one with a
\* result for ["get", "w"]
FeatureCaches ==
    {[hasCache |-> FALSE, cachedExprResults |-> <<>>],
     [hasCache |-> TRUE, cachedExprResults |-> <<>>],
     [hasCache |-> TRUE, cachedExprResults |-> (VarExpr("w") :> Num("9"))]}

DefaultValues == {Undefined, Null, Num("7")}

InitFeatureAttr ==
    /\ NoObjects
    /\ \E attrValue \in FeatureAttrValues, e \in FeatureEnvs, level \in 0..MaxLevel,
          c \in FeatureCaches, defaultValue \in DefaultValues :
              arguments = [attrValue |-> attrValue,
                           env |-> createFeatureEnv(Envs[e], level, c.hasCache,
                                                    c.cachedExprResults),
                           defaultValue |-> defaultValue]
    /\ returned = [done |-> FALSE]

\* evaluateFeatureAttr(attrValue, env, defaultValue)
EvaluateFeatureAttr ==
    /\ ~returned.done
    /\ \E call \in {evaluateFeatureAttr(arguments.attrValue, arguments.env,
                                         arguments.defaultValue)} :
          /\ returned' = [done |-> TRUE, err |-> call.err, value |-> call.v,
                          given |-> arguments]
          /\ arguments' = [arguments EXCEPT !.env.cachedExprResults = call.cache]
    /\ UNCHANGED objectVars

NextFeatureAttr == EvaluateFeatureAttr

SpecFeatureAttr == InitFeatureAttr /\ [][NextFeatureAttr]_vars

(***************************************************************************)
(* MapControls: the mouse and touch handlers.  A handler takes and returns *)
(* the fields of the MapControls with the listeners on window and the      *)
(* counts of dispatched events.                                            *)
(***************************************************************************)
MAX_TAP_DURATION == 120

\* doubleTapTime * 1000
doubleTapTime == 300

\* mouseDown: ignored when disabled, with shift or ctrl, during another
\* interaction and for a button without interaction; else the interaction
\* begins and a new pair of listeners is registered on window, which
\* m_cleanupMouseEventListeners removes
mouseDown(m, event) ==
    IF \/ ~m.controls.enabled
       \/ event.shiftKey \/ event.ctrlKey
       \/ m.controls.m_state # "NONE"
       \/ ~(event.button \in {0, 1} \/ (event.button = 2 /\ m.controls.tiltEnabled))
    THEN m
    ELSE [controls |-> [m.controls EXCEPT
                           !.m_state = CASE event.button = 0 -> "PAN"
                                         [] event.button = 1 -> "ROTATE"
                                         [] OTHER -> "ORBIT",
                           !.m_cleanupMouseEventListeners = m.window.bound + 1],
          window |-> [listeners |-> Append(m.window.listeners, m.window.bound + 1),
                      bound |-> m.window.bound + 1],
          dispatched |-> [m.dispatched EXCEPT !.BeginInteraction = @ + 1]]

\* window.removeEventListener for the pair of listeners
removeEventListener(listeners, pair) ==
    SelectSeq(listeners, LAMBDA l : l # pair)

\* mouseUp: ignored when disabled; else the state is NONE, the pair of
\* listeners registered last is removed and the interaction ends
mouseUp(m) ==
    IF ~m.controls.enabled THEN m
    ELSE [controls |-> [m.controls EXCEPT !.m_state = "NONE"],
          window |-> [m.window EXCEPT
                         !.listeners = removeEventListener(
                                           @, m.controls.m_cleanupMouseEventListeners)],
          dispatched |-> [m.dispatched EXCEPT !.EndInteraction = @ + 1]]

RECURSIVE dispatchMouseUp(_, _)
\* a mouseup event on window: the listeners registered when the event
\* arrives are called in their order, but not one removed meanwhile
dispatchMouseUp(m, listeners) ==
    IF Len(listeners) = 0 THEN m
    ELSE dispatchMouseUp(IF \E i \in 1..Len(m.window.listeners) :
                                m.window.listeners[i] = listeners[1]
                         THEN mouseUp(m)
                         ELSE m,
                         Tail(listeners))

\* touchStart with the number of touches of the event, which hit the map
\* or not (convertTouchPoint returns null for a touch that does not)
touchStart(m, touches, onMap, time) ==
    IF ~m.controls.enabled THEN m
    ELSE [m EXCEPT !.controls = [@ EXCEPT !.m_tapStartTime = time,
                                          !.m_fingerMoved = FALSE,
                                          !.m_state = "TOUCH",
                                          !.touches = IF onMap THEN touches ELSE 0],
                   !.dispatched = [@ EXCEPT !.BeginInteraction = @ + 1]]

\* touchMove, as far as the tap detection goes
touchMove(m) ==
    IF ~m.controls.enabled THEN m
    ELSE [m EXCEPT !.controls = [@ EXCEPT !.m_fingerMoved = TRUE]]

\* handleDoubleTap: the fields after the call, whether
\* zoomOnDoubleClickOrTap was called, and whether the call threw (there is
\* no m_touchState.touches[0] to take the position from)
handleDoubleTap(c, time) ==
    IF c.m_fingerMoved
    THEN [controls |-> c, zoom |-> FALSE, thrown |-> FALSE]
    ELSE IF time - c.m_tapStartTime > MAX_TAP_DURATION
    THEN [controls |-> c, zoom |-> FALSE, thrown |-> FALSE]
    ELSE IF ~c.m_isDoubleTap
    THEN [controls |-> [c EXCEPT !.m_isDoubleTap = TRUE, !.m_lastSingleTapTime = time],
          zoom |-> FALSE, thrown |-> FALSE]
    ELSE IF time - c.m_lastSingleTapTime > doubleTapTime
    THEN [controls |-> [c EXCEPT !.m_isDoubleTap = FALSE],
          zoom |-> FALSE, thrown |-> FALSE]
    ELSE IF c.touches = 0
    THEN [controls |-> c, zoom |-> FALSE, thrown |-> TRUE]
    ELSE [controls |-> [c EXCEPT !.m_isDoubleTap = FALSE],
          zoom |-> TRUE, thrown |-> FALSE]

\* touchEnd with the number of touches left in the event: what the handler
\* leaves, whether it zoomed and whether it threw
touchEnd(m, touches, onMap, time) ==
    IF ~m.controls.enabled
    THEN [controls |-> m.controls, dispatched |-> m.dispatched,
          zoom |-> FALSE, thrown |-> FALSE]
    ELSE LET continue(tap) ==
                 IF tap.thrown
                 THEN [controls |-> tap.controls, dispatched |-> m.dispatched,
                       zoom |-> FALSE, thrown |-> TRUE]
                 ELSE [controls |-> [tap.controls EXCEPT
                                        !.touches = IF onMap THEN touches ELSE 0],
                       dispatched |-> [m.dispatched EXCEPT !.EndInteraction = @ + 1],
                       zoom |-> tap.zoom, thrown |-> FALSE]
         IN  continue(handleDoubleTap([m.controls EXCEPT !.m_state = "NONE"], time))

\* the MapControls with its window and its counts of events
Controls == [controls |-> controls, window |-> window, dispatched |-> dispatched]

\* controls.enabled is set to the other value
SetEnabled ==
    /\ controls' = [controls EXCEPT !.enabled = ~@]
    /\ pointer' = [pointer EXCEPT !.events = @ + 1]
    /\ UNCHANGED <<window, dispatched, now, taps>>
    /\ UNCHANGED <<evaluatorVars, functionVars, dataSourceVars, poiVars>>

\* a mouse button goes down over the canvas
MouseDown(event) ==
    /\ ~pointer.pressed
    /\ \E m \in {mouseDown(Controls, event)} :
          /\ controls' = m.controls
          /\ window' = m.window
          /\ dispatched' = m.dispatched
    /\ pointer' = [pointer EXCEPT !.pressed = TRUE, !.events = @ + 1]
    /\ UNCHANGED <<now, taps>>
    /\ UNCHANGED <<evaluatorVars, functionVars, dataSourceVars, poiVars>>

\* the mouse button goes up: a mouseup event on window
MouseUp ==
    /\ pointer.pressed
    /\ \E m \in {dispatchMouseUp(Controls, window.listeners)} :
          /\ controls' = m.controls
          /\ window' = m.window
          /\ dispatched' = m.dispatched
    /\ pointer' = [pointer EXCEPT !.pressed = FALSE, !.events = @ + 1]
    /\ UNCHANGED <<now, taps>>
    /\ UNCHANGED <<evaluatorVars, functionVars, dataSourceVars, poiVars>>

MaxFingers == 2

\* a finger goes down, delay after the event before
TouchStart(delay, onMap) ==
    /\ pointer.fingers < MaxFingers
    /\ now' = now + delay
    /\ \E m \in {touchStart(Controls, pointer.fingers + 1, onMap, now + delay)} :
          /\ controls' = m.controls
          /\ dispatched' = m.dispatched
    /\ pointer' = [pointer EXCEPT
                      !.fingers = @ + 1,
                      !.events = @ + 1,
                      !.started = IF pointer.fingers = 0 THEN now + delay ELSE @,
                      !.moved = IF pointer.fingers = 0 THEN FALSE ELSE @,
                      !.handled = IF pointer.fingers = 0 THEN controls.enabled ELSE @,
                      !.single = (pointer.fingers = 0),
                      !.onMap = onMap]
    /\ UNCHANGED <<window, taps>>
    /\ UNCHANGED <<evaluatorVars, functionVars, dataSourceVars, poiVars>>

\* a finger moves
TouchMove ==
    /\ pointer.fingers > 0
    /\ \E m \in {touchMove(Controls)} : controls' = m.controls
    /\ pointer' = [pointer EXCEPT !.moved = TRUE, !.events = @ + 1]
    /\ UNCHANGED <<window, dispatched, now, taps>>
    /\ UNCHANGED <<evaluatorVars, functionVars, dataSourceVars, poiVars>>

\* a finger goes up, delay after the event before; the tap is valid when
\* it was a single finger that did not move and went up within
\* MAX_TAP_DURATION, and both handlers ran
TouchEnd(delay) ==
    /\ pointer.fingers > 0
    /\ now' = now + delay
    /\ \E m \in {touchEnd(Controls, pointer.fingers - 1, pointer.onMap, now + delay)} :
          /\ controls' = m.controls
          /\ dispatched' = m.dispatched
          /\ taps' = Append(taps,
                            [valid |-> /\ pointer.single
                                       /\ pointer.handled
                                       /\ controls.enabled
                                       /\ ~pointer.moved
                                       /\ now + delay - pointer.started <= MAX_TAP_DURATION,
                             time |-> now + delay,
                             onMap |-> pointer.onMap,
                             zoom |-> m.zoom,
                             thrown |-> m.thrown])
    /\ pointer' = [pointer EXCEPT !.fingers = @ - 1, !.events = @ + 1]
    /\ UNCHANGED window
    /\ UNCHANGED <<evaluatorVars, functionVars, dataSourceVars, poiVars>>

MaxEvents == 5

\* the mouse events: the three buttons, and the first with shift
MouseEvents ==
    {[button |-> b, shiftKey |-> FALSE, ctrlKey |-> FALSE] : b \in {0, 1, 2}}
        \cup {[button |-> 0, shiftKey |-> TRUE, ctrlKey |-> FALSE]}

InitControls ==
    /\ NoEvaluator
    /\ NoCall
    /\ NewMapControls
    /\ NewFeaturesDataSource
    /\ NewPoiManager

\* up to MaxEvents mouse and touch events and changes of enabled, in any
\* order
NextControls ==
    \/ pointer.events < MaxEvents /\ SetEnabled
    \/ pointer.events < MaxEvents /\ \E event \in MouseEvents : MouseDown(event)
    \/ pointer.events < MaxEvents /\ MouseUp
    \/ pointer.events < MaxEvents /\ \E onMap \in BOOLEAN : TouchStart(100, onMap)
    \/ pointer.events < MaxEvents /\ TouchMove
    \/ pointer.events < MaxEvents /\ TouchEnd(100)

SpecControls == InitControls /\ [][NextControls]_vars

MaxTaps == 4

\* up to MaxTaps taps of one finger on an enabled MapControls: the finger
\* goes down soon or late after the tap before, on the map or not, moves
\* or not, and goes up soon or late
NextTaps ==
    \/ /\ Len(taps) < MaxTaps
       /\ pointer.fingers = 0
       /\ \E delay \in {200, 400}, onMap \in BOOLEAN : TouchStart(delay, onMap)
    \/ ~pointer.moved /\ TouchMove
    \/ \E delay \in {100, 200} : TouchEnd(delay)

SpecTaps == InitControls /\ [][NextTaps]_vars

(***************************************************************************)
(* FeaturesDataSource: add, remove and clear of MapViewFeatures.           *)
(***************************************************************************)
MaxFeatures == 3

\* the properties of a feature: none, or one named like the property the
\* data source keeps the uuid in
NoProperties == [n \in {} |-> 0]
FeatureProperties == {NoProperties, [n \in {"__mapViewUuid"} |-> 0]}

\* MapViewFeatures: a feature object has its uuid for life, its
\* coordinates and properties may change
MapViewFeatures ==
    [uuid : 1..MaxFeatures, type : {"Point"}, coordinates : {1, 2},
     properties : {NoProperties}]
        \cup [uuid : {1}, type : {"Point"}, coordinates : {1},
              properties : FeatureProperties]

\* the GeoJSON feature addFeature creates for a feature
geojsonFeature(feature) ==
    [type |-> "Feature",
     geometry |-> [type |-> feature.type, coordinates |-> feature.coordinates],
     properties |-> [n \in {"__mapViewUuid"} |-> feature.uuid] @@ feature.properties]

\* a test that finds no feature
hasNoFeature(features, feature) == FALSE

\* features.some(_feature => _feature.properties.__mapViewUuid === feature.uuid)
hasFeature(features, feature) ==
    \E i \in 1..Len(features) : features[i].properties["__mapViewUuid"] = feature.uuid

\* features.findIndex(...), 0 for -1
findIndex(features, feature) ==
    IF hasFeature(features, feature)
    THEN CHOOSE i \in 1..Len(features) :
             /\ features[i].properties["__mapViewUuid"] = feature.uuid
             /\ \A j \in 1..(i - 1) :
                   features[j].properties["__mapViewUuid"] # feature.uuid
    ELSE 0

\* features.splice(index, 1)
splice(features, index) ==
    [i \in 1..(Len(features) - 1) |-> features[IF i < index THEN i ELSE i + 1]]

addFeature(features, feature) ==
    IF hasFeature(features, feature) THEN features
    ELSE Append(features, geojsonFeature(feature))

removeFeature(features, feature) ==
    IF findIndex(features, feature) = 0 THEN features
    ELSE splice(features, findIndex(features, feature))

RECURSIVE addFeatures(_, _)
\* the loop of add
addFeatures(features, added) ==
    IF Len(added) = 0 THEN features
    ELSE addFeatures(addFeature(features, added[1]), Tail(added))

RECURSIVE removeFeatures(_, _)
\* the loop of remove
removeFeatures(features, removed) ==
    IF Len(removed) = 0 THEN features
    ELSE removeFeatures(removeFeature(features, removed[1]), Tail(removed))

\* the argument lists of add and remove: one feature, or two of the
\* features with their first coordinates, also the same one twice
FeatureLists ==
    [1..1 -> MapViewFeatures]
        \cup [1..2 -> {feature \in MapViewFeatures :
                          feature.coordinates = 1 /\ feature.properties = NoProperties}]

\* add(...features)
Add(features) ==
    /\ m_featureCollection' = addFeatures(m_featureCollection, features)
    /\ operation' = [name |-> "add", features |-> features,
                     before |-> m_featureCollection]
    /\ UNCHANGED <<evaluatorVars, functionVars, controlVars, poiVars>>

\* remove(...features)
Remove(features) ==
    /\ m_featureCollection' = removeFeatures(m_featureCollection, features)
    /\ operation' = [name |-> "remove", features |-> features,
                     before |-> m_featureCollection]
    /\ UNCHANGED <<evaluatorVars, functionVars, controlVars, poiVars>>

\* clear()
Clear ==
    /\ m_featureCollection' = <<>>
    /\ operation' = [name |-> "clear", features |-> <<>>,
                     before |-> m_featureCollection]
    /\ UNCHANGED <<evaluatorVars, functionVars, controlVars, poiVars>>

NextFeatures ==
    \/ \E features \in FeatureLists : Add(features)
    \/ \E features \in FeatureLists : Remove(features)
    \/ Clear

SpecFeatures == InitControls /\ [][NextFeatures]_vars

(***************************************************************************)
(* PoiManager: the warnings for POIs that are missing in their POI table.  *)
(***************************************************************************)
MaxNotifications == 3

\* the POI tables of the PoiTableManager, loaded, with the names of their
\* entries
PoiTables ==
    [name \in {"poi", "poi[old"} |-> IF name = "poi" THEN {"museum"} ELSE {}]

\* the POI names of the labels
PoiNames == {"museum", "park", "old[park"}

\* poiTable.getEntry(poiName) finds an entry
getEntry(poiTableName, poiName) == poiName \in PoiTables[poiTableName]

\* the key of notifyMissingPoi: `${poiTableName}[${poiName}]`
missingPoiKey(poiName, poiTableName) == poiTableName \o "[" \o poiName \o "]"

\* notifyMissingPoi(poiName, poiTableName)
NotifyMissingPoi(poiName, poiTableName) ==
    /\ notifications' = Append(notifications,
                               [poiName |-> poiName, poiTableName |-> poiTableName])
    /\ IF missingPoiKey(poiName, poiTableName) \notin m_missingPoiName
       THEN /\ m_missingPoiName' = m_missingPoiName
                                      \cup {missingPoiKey(poiName, poiTableName)}
            /\ warnings' = Append(warnings,
                                  [poiName |-> poiName, poiTableName |-> poiTableName])
       ELSE UNCHANGED <<m_missingPoiName, warnings>>

\* updatePoiFromPoiTable for a label with the POI name and the name of a
\* loaded table
UpdatePoiFromPoiTable(poiTableName, poiName) ==
    /\ Len(notifications) < MaxNotifications
    /\ IF getEntry(poiTableName, poiName)
       THEN UNCHANGED poiVars
       ELSE NotifyMissingPoi(poiName, poiTableName)
    /\ UNCHANGED <<evaluatorVars, functionVars, controlVars, dataSourceVars>>

NextPoi ==
    \E poiTableName \in DOMAIN PoiTables, poiName \in PoiNames :
        UpdatePoiFromPoiTable(poiTableName, poiName)

SpecPoi == InitControls /\ [][NextPoi]_vars

\* the arguments of the call that declare the attribute
Declaring(name) ==
    {i \in 1..Len(returned.given) :
        returned.given[i].hasAttrScopes /\ name \in DOMAIN returned.given[i].attrScopes}

\* the last of a non-empty set of positions
Last(positions) == CHOOSE i \in positions : \A j \in positions : j <= i

(***************************************************************************)
(* C33: the descriptor mergeTechniqueDescriptor returns has attrScopes     *)
(* with exactly the attribute names of its arguments, each with the scope  *)
(* of the last argument that declares it; the arguments are after the call *)
(* what they were before; without any scopes among the arguments the       *)
(* result has empty attrScopes.                                            *)
(***************************************************************************)
C33_MergeLastWins ==
    returned.done =>
        /\ returned.value.hasAttrScopes
        /\ DOMAIN returned.value.attrScopes
              = {name \in {"color", "opacity"} : Declaring(name) # {}}
        /\ \A name \in DOMAIN returned.value.attrScopes :
              returned.value.attrScopes[name]
                  = returned.given[Last(Declaring(name))].attrScopes[name]
        /\ arguments = returned.given
        /\ (\A i \in 1..Len(returned.given) : ~returned.given[i].hasAttrScopes)
              => returned.value.attrScopes = EmptyScopes

\* two descriptors that give color different scopes, the first also a
\* scope for opacity: the result has the second scope for color
C33_Witness ==
    /\ returned.done
    /\ Len(returned.given) = 2
    /\ returned.given[1].attrScopes = [n \in {"color", "opacity"} |-> "Feature"]
    /\ returned.given[2].attrScopes = [n \in {"color"} |-> "Renderer"]
    /\ returned.value.attrScopes
          = [n \in {"color", "opacity"} |-> IF n = "color" THEN "Renderer" ELSE "Feature"]

\* the value of the i-th argument of the call, evaluated on its own
ValueOfArg(i) == evaluate(returned.given.args[i], returned.given.env, <<>>)

\* the arguments of the call whose value is of the requested type
OfRequestedType ==
    {i \in 1..Len(returned.given.args) :
        ~ValueOfArg(i).err /\ typeOf(ValueOfArg(i).v) = returned.given.type}

\* the arguments whose evaluation fails
FailingArgs ==
    {i \in 1..Len(returned.given.args) : ValueOfArg(i).err}

\* the first of a non-empty set of positions
First(positions) == CHOOSE i \in positions : \A j \in positions : i <= j

\* the i-th argument is none of the expressions of the arguments before k
NotBelow(i, k) ==
    \A j \in 1..k : returned.given.args[i] \notin subExprs(returned.given.args[j])

(***************************************************************************)
(* C34: a cast operator (boolean, number, string) returns the value of the *)
(* first argument whose value is of the requested type; the arguments up   *)
(* to it were evaluated, those after it were not; when no argument is of   *)
(* the requested type, also without arguments, the call ends with an       *)
(* error.  Stated for calls in which no argument before the first of the   *)
(* requested type fails itself.                                            *)
(***************************************************************************)
C34_CastFirstOfType ==
    (returned.done /\ "evaluated" \in DOMAIN returned) =>
        IF OfRequestedType = {}
        THEN returned.err
        ELSE (\A j \in FailingArgs : j > First(OfRequestedType)) =>
                /\ ~returned.err
                /\ returned.value = ValueOfArg(First(OfRequestedType)).v
                /\ \A i \in 1..Len(returned.given.args) :
                      /\ i <= First(OfRequestedType)
                            => returned.given.args[i] \in returned.evaluated
                      /\ (i > First(OfRequestedType) /\ NotBelow(i, First(OfRequestedType)))
                            => returned.given.args[i] \notin returned.evaluated

\* ["number", ["get","kind"], ["get","t"], ["number", ["get","kind"]]] with
\* t = 1: the second argument is returned, the failing third one was not
\* evaluated
C34_Witness ==
    /\ returned.done
    /\ "evaluated" \in DOMAIN returned
    /\ returned.given.type = "number"
    /\ returned.given.args
          = <<VarExpr("kind"), VarExpr("t"), CallExpr("number", <<VarExpr("kind")>>)>>
    /\ returned.given.env = Envs[3]
    /\ ~returned.err
    /\ returned.value = Num("1")
    /\ returned.evaluated = {VarExpr("kind"), VarExpr("t")}

\* the call of evaluateFeatureAttr resolved its attribute to the value
ResolvedTo(value) ==
    /\ ~returned.err
    /\ returned.value = IF value = Undefined THEN returned.given.defaultValue ELSE value

\* the cache of results of the feature environment is as it was given
CacheUntouched ==
    arguments.env.cachedExprResults = returned.given.env.cachedExprResults

(***************************************************************************)
(* C35: evaluateFeatureAttr resolves an Expr by Expr.evaluate on the       *)
(* feature environment (with its cache of results), an interpolated        *)
(* property by getPropertyValue at the storage level, without the          *)
(* expression evaluator, and any other value as itself; it returns         *)
(* defaultValue when the resolved value is undefined and the resolved      *)
(* value otherwise, also for null, false and 0.                            *)
(***************************************************************************)
C35_FeatureAttrResolved ==
    (returned.done /\ "attrValue" \in DOMAIN returned.given) =>
        LET attrValue == returned.given.attrValue
            env == returned.given.env
        IN  CASE attrValue.k = "expr" ->
                   LET res == evaluate(attrValue.expr, env.env,
                                       IF env.hasCache THEN env.cachedExprResults ELSE <<>>)
                   IN  IF res.err THEN returned.err
                       ELSE /\ ResolvedTo(res.v)
                            /\ env.hasCache => arguments.env.cachedExprResults = res.cache
              [] attrValue.k = "interp" ->
                   /\ \E i \in 1..Len(attrValue.values) :
                         /\ ResolvedTo(attrValue.values[i])
                         /\ \/ attrValue.zoomLevels[i] <= env.storageLevel
                            \/ i = 1
                         /\ \A j \in (i + 1)..Len(attrValue.values) :
                               attrValue.zoomLevels[j] > env.storageLevel
                   /\ CacheUntouched
              [] OTHER ->
                   /\ ResolvedTo(attrValue.val)
                   /\ CacheUntouched
                   /\ attrValue.val \in {Null, Bool(FALSE), Num("0")}
                         => returned.value = attrValue.val

\* an expression that evaluates to null is returned as null although a
\* default value was given
C35_Witness ==
    /\ returned.done
    /\ "attrValue" \in DOMAIN returned.given
    /\ returned.given.attrValue = ExprOf(VarExpr("t"))
    /\ returned.given.env.env = Envs[1]
    /\ returned.given.defaultValue = Num("7")
    /\ returned.value = Null

\* no mouse button is held and no finger is down
NoInteraction == ~pointer.pressed /\ pointer.fingers = 0

(***************************************************************************)
(* C36: over any interleaving of mouse down/up, touch start/end and        *)
(* changes of enabled, the EndInteraction events never outnumber the       *)
(* BeginInteraction events; once the button and the fingers are up every   *)
(* interaction that began has ended, the state is NONE and no listener is  *)
(* left on window.                                                         *)
(***************************************************************************)
C36_InteractionsPaired ==
    /\ dispatched.EndInteraction <= dispatched.BeginInteraction
    /\ NoInteraction =>
          /\ dispatched.EndInteraction = dispatched.BeginInteraction
          /\ controls.m_state = "NONE"
          /\ window.listeners = <<>>

\* the taps from i to j are valid and each follows the one before within
\* doubleTapTime
InRun(i, j) ==
    /\ \A k \in i..j : taps[k].valid
    /\ \A k \in (i + 1)..j : taps[k].time - taps[k - 1].time <= doubleTapTime

\* the detection starts anew with the i-th tap: it is the first tap, or
\* the tap before it zoomed
RunStart(i) == i = 1 \/ taps[i - 1].zoom

\* the taps from i on zoom on every second tap of a run
ZoomOnEverySecond(i) ==
    \A j \in i..Len(taps) : InRun(i, j) => (taps[j].zoom <=> (j - i) % 2 = 1)

(***************************************************************************)
(* C37: in a run of valid taps, each within doubleTapTime of the one       *)
(* before, the zoom is triggered on the 2nd, 4th, ... tap and never on two *)
(* consecutive taps; a valid tap that comes too late after the first one   *)
(* triggers no zoom, and the detection starts anew with the tap after it.  *)
(***************************************************************************)
C37_DoubleTapPairs ==
    /\ \A i \in 1..Len(taps) : RunStart(i) => ZoomOnEverySecond(i)
    /\ \A i \in 1..(Len(taps) - 1) : ~(taps[i].zoom /\ taps[i + 1].zoom)
    /\ \A i \in 1..(Len(taps) - 1) :
          (/\ RunStart(i)
           /\ taps[i].valid /\ taps[i + 1].valid
           /\ taps[i + 1].time - taps[i].time > doubleTapTime)
              => /\ ~taps[i + 1].zoom
                 /\ ZoomOnEverySecond(i + 2)

\* the uuid a GeoJSON feature of the data source was added for
UuidOf(feature) == feature.properties["__mapViewUuid"]

\* the uuids of the features given to the last call
GivenUuids == {operation.features[i].uuid : i \in 1..Len(operation.features)}

\* the uuids of the features of the data source before the last call
UuidsBefore == {UuidOf(operation.before[i]) : i \in 1..Len(operation.before)}

\* the features of the sequence that are not for the uuids
Without(features, uuids) ==
    SelectSeq(features, LAMBDA feature : UuidOf(feature) \notin uuids)

(***************************************************************************)
(* C38: after any sequence of add, remove and clear the data source has at *)
(* most one GeoJSON feature per uuid; add for a uuid that is present and   *)
(* remove for one that is absent change nothing; remove deletes the        *)
(* features of the given uuids and no other, add leaves the features       *)
(* there were as they are.                                                 *)
(***************************************************************************)
C38_OneFeaturePerUuid ==
    /\ \A i, j \in 1..Len(m_featureCollection) :
          UuidOf(m_featureCollection[i]) = UuidOf(m_featureCollection[j]) => i = j
    /\ operation.name = "add" =>
          /\ GivenUuids \subseteq UuidsBefore => m_featureCollection = operation.before
          /\ SubSeq(m_featureCollection, 1, Len(operation.before)) = operation.before
          /\ \A uuid \in GivenUuids :
                \E i \in 1..Len(m_featureCollection) : UuidOf(m_featureCollection[i]) = uuid
    /\ operation.name = "remove" =>
          /\ GivenUuids \cap UuidsBefore = {} => m_featureCollection = operation.before
          /\ m_featureCollection = Without(operation.before, GivenUuids)
    /\ operation.name = "clear" => m_featureCollection = <<>>

\* a feature was added again after its coordinates changed, together with
\* a new one: the data source keeps it as it was and has the new one
C38_Witness ==
    /\ operation.name = "add"
    /\ Len(operation.before) = 2
    /\ Len(operation.features) = 2
    /\ operation.features[1].uuid = UuidOf(operation.before[1])
    /\ operation.features[1].coordinates # operation.before[1].geometry.coordinates
    /\ operation.features[2].uuid \notin UuidsBefore
    /\ m_featureCollection
          = Append(operation.before, geojsonFeature(operation.features[2]))

\* the warnings logged for the POI of the table
WarningsFor(pair) == {i \in 1..Len(warnings) : warnings[i] = pair}

(***************************************************************************)
(* C39: a missing POI is reported once per pair of table name and POI      *)
(* name: no pair has two warnings, and every pair that was notified as     *)
(* missing has its warning, whatever other pairs were reported before.     *)
(***************************************************************************)
C39_OneWarningPerPair ==
    \A i \in 1..Len(notifications) :
        Cardinality(WarningsFor(notifications[i])) = 1

====
